---- MODULE Spec2Model ----
(***************************************************************************)
(* Model of the b0k3ts object-storage gateway                              *)
(* (server/internal/pkg/buckets, pkg/badger, pkg/auth).                    *)
(*                                                                         *)
(* The bucket-connection registry lives in the embedded key/value store    *)
(* (variable db).  Every HTTP handler is one action: it reads the request  *)
(* it is given, runs the handler's code against db and leaves the request  *)
(* together with the response it wrote in the variable last.  Respond      *)
(* models gin finishing the request.                                       *)
(***************************************************************************)
EXTENDS Integers, Sequences, FiniteSets, TLC

VARIABLES
    db,     \* the badger store: key (string) -> stored bytes
    last,   \* the request being served and the response written for it
    grant,  \* history: a principal denied on a connection, then granted access
    objects, \* the object store: bucket name -> (object key -> content)
    moveLog, \* history: a prefix move that stopped part-way, then its re-run
    uploads, \* the object store: upload id -> the multipart upload it names
    client, \* the browser's uploadObjectMultipart call: its position and locals
    inflight, \* requests served side by side: slot -> the handler's position and locals
    lockout \* history: the local users whose last successful DisableUser disabled them

vars == <<db, last, grant, objects, moveLog, uploads, client, inflight, lockout>>

(***************************************************************************)
(* Bounds of the model.                                                    *)
(***************************************************************************)
MaxUsers == 2       \* longest authorized_users list of a stored connection
MaxGroups == 1      \* longest authorized_groups list of a stored connection

(***************************************************************************)
(* Strings.  TLC treats a string as a sequence of characters for Len,      *)
(* SubSeq and \o.                                                          *)
(***************************************************************************)
HasPrefix(s, p) == Len(s) >= Len(p) /\ SubSeq(s, 1, Len(p)) = p

RECURSIVE TrimLeft(_)
TrimLeft(s) ==
    IF Len(s) > 0 /\ SubSeq(s, 1, 1) = " " THEN TrimLeft(SubSeq(s, 2, Len(s))) ELSE s

RECURSIVE TrimRight(_)
TrimRight(s) ==
    IF Len(s) > 0 /\ SubSeq(s, Len(s), Len(s)) = " "
    THEN TrimRight(SubSeq(s, 1, Len(s) - 1)) ELSE s

TrimSpace(s) == TrimRight(TrimLeft(s))

Range(seq) == {seq[i] : i \in 1..Len(seq)}

(***************************************************************************)
(* Configuration and the values requests are drawn from.                   *)
(***************************************************************************)
BucketIdPrefix == "bucket-"
AdminGroup == "admins"

\* Connection ids and bucket names, in the byte order badger iterates keys in.
IdOrder == <<"data", "dev">>
Ids == Range(IdOrder)

EmailPool == <<"a@x.com", "b@x.com", "c@x.com">>
GroupPool == <<"team", "ops">>

UserLists == {SubSeq(EmailPool, 1, n) : n \in 0..MaxUsers}
GroupLists == {SubSeq(GroupPool, 1, n) : n \in 0..MaxGroups}

\* auth.User as the handlers read it: Email, Groups, Administrator.
User(email, groups, administrator) ==
    [email |-> email, groups |-> groups, administrator |-> administrator]

Alice == User("a@x.com", <<>>, FALSE)
Bob == User("b@x.com", <<"team">>, FALSE)
Carol == User("c@x.com", <<"ops", "admins">>, FALSE)
Root == User("root@x.com", <<>>, TRUE)
Anonymous == User("", <<>>, FALSE)      \* no usable token: TokenToUserData gives User{}

Users == {Alice, Bob, Carol, Root, Anonymous}

\* BucketConfig, the JSON body of add_connection and the stored record.
BucketConfig(id, name, secret, users, groups) ==
    [bucket_id |-> id, endpoint |-> "s3.local:9000", access_key_id |-> "AK",
     secret_access_key |-> secret, secure |-> FALSE, bucket_name |-> name,
     location |-> "us-east-1", authorized_users |-> users,
     authorized_groups |-> groups]

Secrets == {"s1"}

Configs ==
    {BucketConfig(id, name, s, us, gs) :
        id \in Ids, name \in Ids, s \in Secrets, us \in UserLists, gs \in GroupLists}

(***************************************************************************)
(* encoding/json on BucketConfig: the fields in declaration order.         *)
(***************************************************************************)
Marshal(cfg) ==
    <<cfg.bucket_id, cfg.endpoint, cfg.access_key_id, cfg.secret_access_key,
      cfg.secure, cfg.bucket_name, cfg.location, cfg.authorized_users,
      cfg.authorized_groups>>

unmarshalBucketConfig(b) ==
    IF Len(b) = 9
    THEN [err |-> FALSE,
          cfg |-> [bucket_id |-> b[1], endpoint |-> b[2], access_key_id |-> b[3],
                   secret_access_key |-> b[4], secure |-> b[5], bucket_name |-> b[6],
                   location |-> b[7], authorized_users |-> b[8],
                   authorized_groups |-> b[9]]]
    ELSE [err |-> TRUE, cfg |-> BucketConfig("", "", "", <<>>, <<>>)]

(***************************************************************************)
(* pkg/badger: the key/value primitives.                                   *)
(***************************************************************************)
PullKV(d, key) ==
    IF key \in DOMAIN d
    THEN [err |-> FALSE, val |-> d[key]]
    ELSE [err |-> TRUE, val |-> <<>>]       \* badger.ErrKeyNotFound

\* A put that takes a key the store already holds for a conflict.
PutKV_FailsOnExisting(d, key, value) ==
    IF key = "" \/ key \in DOMAIN d
    THEN [err |-> TRUE, db |-> d]
    ELSE [err |-> FALSE, db |-> [k \in DOMAIN d \cup {key} |-> IF k = key THEN value ELSE d[k]]]

PutKV(d, key, value) ==
    IF key = ""
    THEN [err |-> TRUE, db |-> d]           \* badger.ErrEmptyKey
    ELSE [err |-> FALSE, db |-> [k \in DOMAIN d \cup {key} |-> IF k = key THEN value ELSE d[k]]]

DeleteKV(d, key) ==
    [err |-> FALSE, db |-> [k \in DOMAIN d \ {key} |-> d[k]]]

\* Every key the model can hold, in badger's iteration (byte) order.
KeyOrder == [i \in 1..Len(IdOrder) |-> BucketIdPrefix \o IdOrder[i]] \o <<"config">>

RECURSIVE scanFrom(_, _, _)
scanFrom(d, prefixStr, i) ==
    IF i > Len(KeyOrder) THEN <<>>
    ELSE IF KeyOrder[i] \in DOMAIN d /\ HasPrefix(KeyOrder[i], prefixStr)
         THEN <<d[KeyOrder[i]]>> \o scanFrom(d, prefixStr, i + 1)
         ELSE scanFrom(d, prefixStr, i + 1)

scanByPrefix(d, prefixStr) == scanFrom(d, prefixStr, 1)

(***************************************************************************)
(* Authorization (buckets.go, isAuthorizedForBucket) and the steps every   *)
(* handler runs before it touches a connection.                            *)
(***************************************************************************)
\* for _, u := range bucketConfig.AuthorizedUsers { if u == userInfo.Email ... }
RECURSIVE userListed(_, _, _)
userListed(authorizedUsers, email, i) ==
    IF i > Len(authorizedUsers) THEN FALSE
    ELSE IF authorizedUsers[i] = email THEN TRUE
    ELSE userListed(authorizedUsers, email, i + 1)

\* for _, allowed := range bucketConfig.AuthorizedGroups { if g == allowed ... }
RECURSIVE groupListed(_, _, _)
groupListed(authorizedGroups, g, j) ==
    IF j > Len(authorizedGroups) THEN FALSE
    ELSE IF g = authorizedGroups[j] THEN TRUE
    ELSE groupListed(authorizedGroups, g, j + 1)

\* for _, g := range userInfo.Groups { admin group, then the group allowlist }
RECURSIVE groupsAllow(_, _, _)
groupsAllow(groups, authorizedGroups, i) ==
    IF i > Len(groups) THEN FALSE
    ELSE IF groups[i] = AdminGroup THEN TRUE
    ELSE IF groupListed(authorizedGroups, groups[i], 1) THEN TRUE
    ELSE groupsAllow(groups, authorizedGroups, i + 1)

\* isAuthorizedForBucket without the admin-group test of its group loop.
isAuthorizedForBucket_NoAdminGroup(userInfo, bucketConfig) ==
    IF userInfo.administrator THEN TRUE
    ELSE IF userListed(bucketConfig.authorized_users, userInfo.email, 1) THEN TRUE
    ELSE \E i \in 1..Len(userInfo.groups) :
            groupListed(bucketConfig.authorized_groups, userInfo.groups[i], 1)

\* isAuthorizedForBucket without the loop over AuthorizedUsers.
isAuthorizedForBucket_NoUserList(userInfo, bucketConfig) ==
    IF userInfo.administrator THEN TRUE
    ELSE groupsAllow(userInfo.groups, bucketConfig.authorized_groups, 1)

isAuthorizedForBucket(userInfo, bucketConfig) ==
    IF userInfo.administrator THEN TRUE
    ELSE IF userListed(bucketConfig.authorized_users, userInfo.email, 1) THEN TRUE
    ELSE groupsAllow(userInfo.groups, bucketConfig.authorized_groups, 1)

tokenUserOrRespond(userInfo) ==
    IF TrimSpace(userInfo.email) = ""
    THEN [ok |-> FALSE, status |-> 400,
          msg |-> "token user or response failed. failed to get token id"]
    ELSE [ok |-> TRUE, status |-> 0, msg |-> ""]

NoConfig == BucketConfig("", "", "", <<>>, <<>>)

getBucketConfigOrRespond(d, bucketID) ==
    LET res == PullKV(d, BucketIdPrefix \o bucketID)
        dec == unmarshalBucketConfig(res.val)
    IN  IF res.err
        THEN [ok |-> FALSE, status |-> 400, msg |-> "Key not found", cfg |-> NoConfig]
        ELSE IF dec.err
        THEN [ok |-> FALSE, status |-> 400, msg |-> "json: cannot unmarshal", cfg |-> NoConfig]
        ELSE [ok |-> TRUE, status |-> 0, msg |-> "", cfg |-> dec.cfg]

\* filterAuthorizedBucketConfigs that appends every decoded record.
filterAuthorizedBucketConfigs_All(userInfo, cfgs) == cfgs

filterAuthorizedBucketConfigs(userInfo, cfgs) ==
    SelectSeq(cfgs, LAMBDA cfg : isAuthorizedForBucket(userInfo, cfg))

listBucketConfigsOrRespond(d) ==
    LET raw == scanByPrefix(d, "bucket-")
        dec == [i \in 1..Len(raw) |-> unmarshalBucketConfig(raw[i])]
    IN  IF \E i \in 1..Len(raw) : dec[i].err
        THEN [ok |-> FALSE, status |-> 400, msg |-> "json: cannot unmarshal", cfgs |-> <<>>]
        ELSE [ok |-> TRUE, status |-> 0, msg |-> "", cfgs |-> [i \in 1..Len(raw) |-> dec[i].cfg]]

\* The JSON body as bucketNameOrRespond binds it (ObjectRequest): a handler
\* that already bound the body leaves nothing to read.
Body(bucket) == [readable |-> TRUE, bucket |-> bucket]
ConsumedBody == [readable |-> FALSE, bucket |-> ""]

bucketNameOrRespond(bucketName, body) ==
    IF TrimSpace(bucketName) # ""
    THEN [ok |-> TRUE, status |-> 0, msg |-> "", name |-> bucketName]
    ELSE IF ~body.readable
    THEN [ok |-> FALSE, status |-> 400, msg |-> "EOF", name |-> ""]
    ELSE IF TrimSpace(body.bucket) = ""
    THEN [ok |-> FALSE, status |-> 400, msg |-> "bucket is required", name |-> ""]
    ELSE [ok |-> TRUE, status |-> 0, msg |-> "", name |-> TrimSpace(body.bucket)]

\* authorizeAndExtract without the return after the "Unauthorized" response.
authorizeAndExtract_NoReturn(d, userInfo, bucketName, body) ==
    LET tok == tokenUserOrRespond(userInfo)
        nm == bucketNameOrRespond(bucketName, body)
        got == getBucketConfigOrRespond(d, nm.name)
    IN  IF ~tok.ok
        THEN [ok |-> FALSE, status |-> tok.status, msg |-> tok.msg, name |-> "",
              cfg |-> NoConfig, authz |-> "none"]
        ELSE IF ~nm.ok
        THEN [ok |-> FALSE, status |-> nm.status, msg |-> nm.msg, name |-> "",
              cfg |-> NoConfig, authz |-> "none"]
        ELSE IF ~got.ok
        THEN [ok |-> FALSE, status |-> got.status, msg |-> got.msg, name |-> nm.name,
              cfg |-> NoConfig, authz |-> "none"]
        ELSE [ok |-> TRUE, status |-> 0, msg |-> "", name |-> nm.name, cfg |-> got.cfg,
              authz |-> IF isAuthorizedForBucket(userInfo, got.cfg) THEN "allow" ELSE "deny"]

\* authorizeAndExtract: nil (ok = FALSE, the response already written) or the
\* resolved BucketConfig.
authorizeAndExtract(d, userInfo, bucketName, body) ==
    LET tok == tokenUserOrRespond(userInfo)
        nm == bucketNameOrRespond(bucketName, body)
        got == getBucketConfigOrRespond(d, nm.name)
    IN  IF ~tok.ok
        THEN [ok |-> FALSE, status |-> tok.status, msg |-> tok.msg, name |-> "",
              cfg |-> NoConfig, authz |-> "none"]
        ELSE IF ~nm.ok
        THEN [ok |-> FALSE, status |-> nm.status, msg |-> nm.msg, name |-> "",
              cfg |-> NoConfig, authz |-> "none"]
        ELSE IF ~got.ok
        THEN [ok |-> FALSE, status |-> got.status, msg |-> got.msg, name |-> nm.name,
              cfg |-> NoConfig, authz |-> "none"]
        ELSE IF ~isAuthorizedForBucket(userInfo, got.cfg)
        THEN [ok |-> FALSE, status |-> 400, msg |-> "Unauthorized", name |-> nm.name,
              cfg |-> got.cfg, authz |-> "deny"]
        ELSE [ok |-> TRUE, status |-> 0, msg |-> "", name |-> nm.name,
              cfg |-> got.cfg, authz |-> "allow"]

(***************************************************************************)
(* The request being served and its response.                              *)
(*   op      handler name ("idle" between requests)                        *)
(*   user    the principal TokenToUserData read from the Authorization     *)
(*           header                                                        *)
(*   bucket  the connection id the request names                           *)
(*   cfg     the BucketConfig of the request body (add_connection) or the  *)
(*           one the handler resolved                                      *)
(*   authz   what isAuthorizedForBucket returned in this request, "none"   *)
(*           when the handler did not call it                              *)
(*   status, msg, body   the HTTP response                                 *)
(*   calls   the object-store calls the handler issued, in order           *)
(*   req     the ObjectMoveRequest a move bound                            *)
(*   fault   <<verb, key>> of the object-store call that fails while a     *)
(*           move or an abort is served (<<>> when none does)              *)
(*   input   the fields a list, presign-part or complete request bound     *)
(***************************************************************************)
ObjectMoveRequest(bucket, fromKey, toKey, fromPrefix, toPrefix, overwrite) ==
    [bucket |-> bucket, from_key |-> fromKey, to_key |-> toKey,
     from_prefix |-> fromPrefix, to_prefix |-> toPrefix, overwrite |-> overwrite]

NoRequest == ObjectMoveRequest("", "", "", "", "", FALSE)

Served(op, user, bucket, cfg, authz, status, msg, body, calls) ==
    [op |-> op, user |-> user, bucket |-> bucket, cfg |-> cfg, authz |-> authz,
     status |-> status, msg |-> msg, body |-> body, calls |-> calls,
     req |-> NoRequest, fault |-> <<>>, input |-> <<>>]

Idle == Served("idle", Anonymous, "", NoConfig, "none", 0, "", <<>>, <<>>)

\* History of one principal on one connection id: denied by a gateway
\* operation, then added to authorized_users by an upsert, then served again.
NoGrant == [stage |-> "none", user |-> Anonymous, bucket |-> ""]

GatewayOps ==
    {"PresignDownload", "Move", "MultipartInitiate", "MultipartPresignPart",
     "MultipartComplete", "MultipartAbort", "DownloadNative", "Download",
     "Delete", "ListObjects"}

grantAfter(g, d, served) ==
    LET old == getBucketConfigOrRespond(d, g.bucket)
        mine == served.user = g.user /\ served.bucket = g.bucket
    IN  IF served.op \in GatewayOps /\ g.stage = "granted" /\ mine /\ served.authz # "none"
        THEN [g EXCEPT !.stage = IF served.authz = "allow" THEN "served" ELSE "refused"]
        ELSE IF served.op \in GatewayOps /\ served.authz = "deny"
        THEN [stage |-> "denied", user |-> served.user, bucket |-> served.bucket]
        ELSE IF served.op = "AddConnection" /\ served.status = 200
                /\ g.stage = "denied" /\ old.ok
                /\ served.cfg = [old.cfg EXCEPT !.authorized_users =
                                    Append(old.cfg.authorized_users, g.user.email)]
        THEN [g EXCEPT !.stage = "granted"]
        ELSE IF served.op = "AddConnection" /\ served.status = 200
                /\ served.cfg.bucket_name = g.bucket
        THEN NoGrant
        ELSE IF served.op = "DeleteConnection" /\ served.authz = "allow"
                /\ served.status = 200 /\ served.bucket = g.bucket
        THEN NoGrant
        ELSE g

\* A bucket holding no object.
EmptyBucket == [k \in {} |-> ""]

(***************************************************************************)
(* Multipart uploads as the object store keeps them.  The store names a    *)
(* new upload by an id it never hands out again; an upload is in progress  *)
(* from NewMultipartUpload until CompleteMultipartUpload or                *)
(* AbortMultipartUpload ends it.                                           *)
(*   state   "none" (id not handed out), "initiated" (no part yet),        *)
(*           "uploading" (parts stored), "completed", "aborted"            *)
(*   parts   the parts stored through presigned PUTs                       *)
(***************************************************************************)
MaxUploads == 1     \* upload ids the store hands out
MaxParts == 2       \* parts the browser cuts a file into

UploadIdOrder == SubSeq(<<"upload-1", "upload-2", "upload-3", "upload-4">>, 1, MaxUploads)
UploadIds == {UploadIdOrder[i] : i \in 1..Len(UploadIdOrder)}

NoUpload == [state |-> "none", bucket |-> "", key |-> "", parts |-> {}]
NoUploads == [id \in UploadIds |-> NoUpload]

InProgress(ups, uploadID) ==
    uploadID \in DOMAIN ups /\ ups[uploadID].state \in {"initiated", "uploading"}

\* uploadObjectMultipart before its first call.
NoClient ==
    [pc |-> "start", upload_id |-> "", partNumber |-> 0, partCount |-> 0,
     completedParts |-> <<>>, err |-> "", sent |-> <<>>]

\* Two requests are served at a time.  A slot holds what the handler
\* serving a request keeps between two of its calls:
\*   pc        "free", then the call it issues next, "done" once it responded
\*   req, cfg  the move request / the connection record it bound
\*   res       json.Marshal of the connection record
\*   listed    the keys of the listing page not yet taken from the channel
\*   marker    the place in key order the listing has got to
\*   more      the listing page said that more keys follow
\*   fromKey, newKey, moved, calls   the locals of the move
\*   status, body   the response
\*   replaced  history: a copy of this move replaced an object
\*   carried   history: the contents the copies of this move read
Slots == {1, 2}

NoFlight ==
    [op |-> "none", pc |-> "free", req |-> NoRequest, cfg |-> NoConfig, res |-> <<>>,
     listed |-> <<>>, marker |-> 0, more |-> FALSE, fromKey |-> "", newKey |-> "",
     moved |-> 0, calls |-> <<>>, status |-> 0, body |-> <<>>, replaced |-> FALSE,
     carried |-> {}]

NoInflight == [s \in Slots |-> NoFlight]

\* History of one prefix move that stopped on a failure: the request, the
\* bucket as it was before it, and the keys its completed steps wrote.
NoMoveLog == [stage |-> "none", req |-> NoRequest, before |-> EmptyBucket, moved |-> {}]

Init ==
    /\ db = [k \in {"config"} |-> <<"config.yaml">>]   \* Preflight stores the server config
    /\ last = Idle
    /\ grant = NoGrant
    /\ objects = [b \in Ids |-> EmptyBucket]
    /\ moveLog = NoMoveLog
    /\ uploads = NoUploads
    /\ client = NoClient
    /\ inflight = NoInflight
    /\ lockout = {}

(***************************************************************************)
(* Connection registry handlers.                                           *)
(***************************************************************************)
AddConnection(userInfo, bucketConfig, fault) ==
    /\ last = Idle
    /\ LET put == PutKV(db, BucketIdPrefix \o bucketConfig.bucket_name,
                        Marshal(bucketConfig))
           served ==
               IF userInfo.email = ""
               THEN Served("AddConnection", userInfo, "", bucketConfig, "none", 400,
                           "add connection failed. failed to get token id", <<>>, <<>>)
               ELSE IF fault = "bind"
               THEN Served("AddConnection", userInfo, "", NoConfig, "none", 400,
                           "invalid JSON", <<>>, <<>>)
               ELSE IF put.err
               THEN Served("AddConnection", userInfo, "", bucketConfig, "none", 400,
                           "Key cannot be empty", <<>>, <<>>)
               ELSE Served("AddConnection", userInfo, "", bucketConfig, "none", 200,
                           "Connection Added", <<>>, <<>>)
       IN  /\ db' = IF served.status = 200 THEN put.db ELSE db
           /\ last' = served
           /\ grant' = grantAfter(grant, db, served)
           /\ UNCHANGED <<objects, moveLog, uploads, client, inflight, lockout>>

\* DeleteConnection that deletes before it looks at the authorization result.
DeleteConnection_DeletesFirst(userInfo, bucketId, fault) ==
    /\ last = Idle
    /\ LET tok == tokenUserOrRespond(userInfo)
           got == getBucketConfigOrRespond(db, bucketId)
           del == DeleteKV(db, BucketIdPrefix \o bucketId)
           authz == IF isAuthorizedForBucket(userInfo, got.cfg) THEN "allow" ELSE "deny"
           served ==
               IF ~tok.ok
               THEN Served("DeleteConnection", userInfo, bucketId, NoConfig, "none",
                           tok.status, tok.msg, <<>>, <<>>)
               ELSE IF fault = "bind"
               THEN Served("DeleteConnection", userInfo, "", NoConfig, "none", 400,
                           "invalid JSON", <<>>, <<>>)
               ELSE IF ~got.ok
               THEN Served("DeleteConnection", userInfo, bucketId, NoConfig, "none",
                           got.status, got.msg, <<>>, <<>>)
               ELSE Served("DeleteConnection", userInfo, bucketId, got.cfg, authz, 200,
                           "Bucket connection deleted successfully", <<>>, <<>>)
       IN  /\ db' = IF served.authz # "none" THEN del.db ELSE db
           /\ last' = served
           /\ grant' = grantAfter(grant, db, served)
           /\ UNCHANGED <<objects, moveLog, uploads, client, inflight, lockout>>

\* DeleteConnection that answers an unauthorized caller like authorizeAndExtract does.
DeleteConnection_Rejects(userInfo, bucketId, fault) ==
    /\ last = Idle
    /\ LET tok == tokenUserOrRespond(userInfo)
           got == getBucketConfigOrRespond(db, bucketId)
           del == DeleteKV(db, BucketIdPrefix \o bucketId)
           served ==
               IF ~tok.ok
               THEN Served("DeleteConnection", userInfo, bucketId, NoConfig, "none",
                           tok.status, tok.msg, <<>>, <<>>)
               ELSE IF fault = "bind"
               THEN Served("DeleteConnection", userInfo, "", NoConfig, "none", 400,
                           "invalid JSON", <<>>, <<>>)
               ELSE IF ~got.ok
               THEN Served("DeleteConnection", userInfo, bucketId, NoConfig, "none",
                           got.status, got.msg, <<>>, <<>>)
               ELSE IF ~isAuthorizedForBucket(userInfo, got.cfg)
               THEN Served("DeleteConnection", userInfo, bucketId, got.cfg, "deny", 400,
                           "Unauthorized", <<>>, <<>>)
               ELSE Served("DeleteConnection", userInfo, bucketId, got.cfg, "allow", 200,
                           "Bucket connection deleted successfully", <<>>, <<>>)
       IN  /\ db' = IF served.authz = "allow" /\ served.status = 200 THEN del.db ELSE db
           /\ last' = served
           /\ grant' = grantAfter(grant, db, served)
           /\ UNCHANGED <<objects, moveLog, uploads, client, inflight, lockout>>

DeleteConnection(userInfo, bucketId, fault) ==
    /\ last = Idle
    /\ LET tok == tokenUserOrRespond(userInfo)
           got == getBucketConfigOrRespond(db, bucketId)
           del == DeleteKV(db, BucketIdPrefix \o bucketId)
           served ==
               IF ~tok.ok
               THEN Served("DeleteConnection", userInfo, bucketId, NoConfig, "none",
                           tok.status, tok.msg, <<>>, <<>>)
               ELSE IF fault = "bind"
               THEN Served("DeleteConnection", userInfo, "", NoConfig, "none", 400,
                           "invalid JSON", <<>>, <<>>)
               ELSE IF ~got.ok
               THEN Served("DeleteConnection", userInfo, bucketId, NoConfig, "none",
                           got.status, got.msg, <<>>, <<>>)
               ELSE IF ~isAuthorizedForBucket(userInfo, got.cfg)
               \* "Preserve previous behavior: silently succeed even if not authorized."
               THEN Served("DeleteConnection", userInfo, bucketId, got.cfg, "deny", 200,
                           "Bucket connection deleted successfully", <<>>, <<>>)
               ELSE IF del.err
               THEN Served("DeleteConnection", userInfo, bucketId, got.cfg, "allow", 400,
                           "delete failed", <<>>, <<>>)
               ELSE Served("DeleteConnection", userInfo, bucketId, got.cfg, "allow", 200,
                           "Bucket connection deleted successfully", <<>>, <<>>)
       IN  /\ db' = IF served.authz = "allow" /\ served.status = 200 THEN del.db ELSE db
           /\ last' = served
           /\ grant' = grantAfter(grant, db, served)
           /\ UNCHANGED <<objects, moveLog, uploads, client, inflight, lockout>>

ListConnection(userInfo) ==
    /\ last = Idle
    /\ LET tok == tokenUserOrRespond(userInfo)
           all == listBucketConfigsOrRespond(db)
           served ==
               IF ~tok.ok
               THEN Served("ListConnection", userInfo, "", NoConfig, "none",
                           tok.status, tok.msg, <<>>, <<>>)
               ELSE IF ~all.ok
               THEN Served("ListConnection", userInfo, "", NoConfig, "none",
                           all.status, all.msg, <<>>, <<>>)
               ELSE Served("ListConnection", userInfo, "", NoConfig, "none", 200, "",
                           filterAuthorizedBucketConfigs(userInfo, all.cfgs), <<>>)
       IN  /\ last' = served
           /\ grant' = grantAfter(grant, db, served)
           /\ UNCHANGED <<db, objects, moveLog, uploads, client, inflight, lockout>>

\* gin has written the response; the handler's request-scoped data is gone.
Respond ==
    /\ last # Idle
    /\ last.status # 0           \* after log.Fatal there is no process to respond
    /\ last' = Idle
    /\ grant' = IF grant.stage \in {"served", "refused"} THEN NoGrant ELSE grant
    /\ moveLog' = IF moveLog.stage = "retried" THEN NoMoveLog ELSE moveLog
    /\ UNCHANGED <<db, objects, uploads, client, inflight, lockout>>

(***************************************************************************)
(* Object handlers.  The object store is an external service: a handler's  *)
(* calls to it are recorded in calls as <<verb, object key>>, and fault    *)
(* names what goes wrong in this request: "" (nothing), "bind" (the body   *)
(* is not the JSON the handler binds) or the store call that fails.        *)
(***************************************************************************)
\* Every object key of the model, in the byte order a listing returns keys in.
ObjectKeyOrder ==
    <<"a/", "a/a", "a/b/a", "a/b/b/a", "a/b/b/x", "a/b/b/y", "a/b/x", "a/b/y", "a/x", "a/y",
      "b/a", "b/b/b/x", "b/b/b/y", "b/b/x", "b/b/y", "b/x", "b/y">>

Store(objs, fault) == [objects |-> objs, fault |-> fault]

\* mio.ListObjects(Prefix, Recursive): the keys under the prefix, in key order.
mioListObjects(store, prefix) ==
    SelectSeq(ObjectKeyOrder, LAMBDA k : k \in DOMAIN store.objects /\ HasPrefix(k, prefix))

\* The request ended before authorizeAndExtract returned a connection.
Rejected(op, userInfo, bucket, auth) ==
    Served(op, userInfo, bucket, auth.cfg, auth.authz, auth.status, auth.msg, <<>>, <<>>)

Invalid(op, userInfo, bucket, msg) ==
    Served(op, userInfo, bucket, NoConfig, "none", 400, msg, <<>>, <<>>)

Upload(userInfo) ==
    /\ last = Idle
    /\ last' =
        Served("Upload", userInfo, "", NoConfig, "none", 410,
               "direct multipart upload required", <<>>, <<>>)
    /\ grant' = grantAfter(grant, db, last')
    /\ UNCHANGED <<db, objects, moveLog, uploads, client, inflight, lockout>>

Delete(userInfo, bucket, filename, fault) ==
    /\ last = Idle
    /\ last' =
        LET auth == authorizeAndExtract(db, userInfo, bucket, ConsumedBody)
            call == <<"RemoveObject", filename>>
        IN  IF fault = "bind" THEN Invalid("Delete", userInfo, "", "invalid JSON")
            ELSE IF ~auth.ok THEN Rejected("Delete", userInfo, bucket, auth)
            ELSE IF fault = "RemoveObject"
            THEN Served("Delete", userInfo, bucket, auth.cfg, auth.authz, 400,
                        "RemoveObject failed", <<>>, <<call>>)
            ELSE Served("Delete", userInfo, bucket, auth.cfg, auth.authz, 200,
                        "Object deleted successfully", <<>>, <<call>>)
    /\ grant' = grantAfter(grant, db, last')
    /\ objects' =
        IF last'.status = 200
        THEN [objects EXCEPT ![last'.cfg.bucket_name] =
                 [k \in DOMAIN @ \ {filename} |-> @[k]]]
        ELSE objects
    /\ moveLog' = IF last'.status = 200 THEN NoMoveLog ELSE moveLog
    /\ UNCHANGED <<db, uploads, client, inflight, lockout>>

Download(userInfo, bucket, filename, fault) ==
    /\ last = Idle
    /\ last' =
        LET auth == authorizeAndExtract(db, userInfo, bucket, ConsumedBody)
            get == <<"GetObject", filename>>
            stat == <<"StatObject", filename>>
        IN  IF fault = "bind" THEN Invalid("Download", userInfo, "", "invalid JSON")
            ELSE IF ~auth.ok THEN Rejected("Download", userInfo, bucket, auth)
            ELSE IF fault = "GetObject"     \* io.ReadAll on the object fails
            THEN Served("Download", userInfo, bucket, auth.cfg, auth.authz, 400,
                        "GetObject failed", <<>>, <<get>>)
            ELSE IF fault = "StatObject"
            THEN Served("Download", userInfo, bucket, auth.cfg, auth.authz, 400,
                        "StatObject failed", <<>>, <<get, stat>>)
            ELSE Served("Download", userInfo, bucket, auth.cfg, auth.authz, 200,
                        "", <<filename>>, <<get, stat>>)
    /\ grant' = grantAfter(grant, db, last')
    /\ UNCHANGED <<db, objects, moveLog, uploads, client, inflight, lockout>>

DownloadNative(userInfo, bucketID, key, fault) ==
    /\ last = Idle
    /\ last' =
        LET auth == authorizeAndExtract(db, userInfo, bucketID, ConsumedBody)
            get == <<"GetObject", key>>
            stat == <<"StatObject", key>>
        IN  IF bucketID = "" \/ key = ""
            THEN Invalid("DownloadNative", userInfo, bucketID, "bucket and key are required")
            ELSE IF ~auth.ok THEN Rejected("DownloadNative", userInfo, bucketID, auth)
            ELSE IF fault = "GetObject"
            THEN Served("DownloadNative", userInfo, bucketID, auth.cfg, auth.authz, 400,
                        "GetObject failed", <<>>, <<get>>)
            ELSE IF fault = "StatObject"
            THEN Served("DownloadNative", userInfo, bucketID, auth.cfg, auth.authz, 404,
                        "object not found", <<>>, <<get, stat>>)
            \* io.Copy failing after the headers went out is only logged
            ELSE Served("DownloadNative", userInfo, bucketID, auth.cfg, auth.authz, 200,
                        "", <<key>>, <<get, stat>>)
    /\ grant' = grantAfter(grant, db, last')
    /\ UNCHANGED <<db, objects, moveLog, uploads, client, inflight, lockout>>

\* ListObjects binds the body inside authorizeAndExtract, which keeps only
\* its bucket field, and lists with Prefix: "".  An entry of the response is
\* the key the listing yields.
ListObjects(userInfo, body, prefix, fault) ==
    /\ last = Idle
    /\ last' =
        LET auth == authorizeAndExtract(db, userInfo, "", body)
            call == <<"ListObjects", "">>
            listing == mioListObjects(Store(objects[auth.cfg.bucket_name], <<>>), "")
            S(status, msg, out, calls) ==
                [Served("ListObjects", userInfo, auth.name, auth.cfg, auth.authz,
                        status, msg, out, calls) EXCEPT !.input = <<prefix>>]
        IN  IF ~auth.ok
            THEN [Rejected("ListObjects", userInfo, TrimSpace(body.bucket), auth)
                     EXCEPT !.input = <<prefix>>]
            ELSE IF fault = "ListObjects"
            THEN S(400, "ListObjects failed", <<>>, <<call>>)
            ELSE S(200, "", listing, <<call>>)
    /\ grant' = grantAfter(grant, db, last')
    /\ UNCHANGED <<db, objects, moveLog, uploads, client, inflight, lockout>>

SevenDays == 604800         \* 7*24*3600
DefaultExpires == 900

PresignDownload(userInfo, bucket, key, expiresSeconds, fault) ==
    /\ last = Idle
    /\ last' =
        LET auth == authorizeAndExtract(db, userInfo, bucket, ConsumedBody)
            expires == IF expiresSeconds <= 0 THEN DefaultExpires ELSE expiresSeconds
            call == <<"Presign", key, expires>>
        IN  IF fault = "bind" THEN Invalid("PresignDownload", userInfo, "", "invalid JSON")
            ELSE IF bucket = "" \/ key = ""
            THEN Invalid("PresignDownload", userInfo, bucket, "bucket and key are required")
            ELSE IF ~auth.ok THEN Rejected("PresignDownload", userInfo, bucket, auth)
            ELSE IF expires > SevenDays
            THEN Served("PresignDownload", userInfo, bucket, auth.cfg, auth.authz, 400,
                        "expires_seconds too large", <<>>, <<>>)
            ELSE IF fault = "Presign"
            THEN Served("PresignDownload", userInfo, bucket, auth.cfg, auth.authz, 400,
                        "Presign failed", <<>>, <<call>>)
            ELSE Served("PresignDownload", userInfo, bucket, auth.cfg, auth.authz, 200,
                        "", <<"url">>, <<call>>)
    /\ grant' = grantAfter(grant, db, last')
    /\ UNCHANGED <<db, objects, moveLog, uploads, client, inflight, lockout>>

(***************************************************************************)
(* Multipart upload handlers.                                              *)
(***************************************************************************)
MinPartNumber == 1
MaxPartNumber == 10000

\* core.NewMultipartUpload: the store hands out the first id it never used.
coreNewMultipartUpload(ups, bucketName, key, fault) ==
    LET free == {i \in 1..Len(UploadIdOrder) : ups[UploadIdOrder[i]].state = "none"}
        id == UploadIdOrder[CHOOSE i \in free : \A j \in free : i <= j]
    IN  IF fault = "NewMultipartUpload" \/ free = {}
        THEN [err |-> TRUE, upload_id |-> "", uploads |-> ups]
        ELSE [err |-> FALSE, upload_id |-> id,
              uploads |-> [ups EXCEPT ![id] = [state |-> "initiated", bucket |-> bucketName,
                                               key |-> key, parts |-> {}]]]

\* The upload id names an upload in progress for this key of this bucket.
Live(ups, bucketName, key, uploadID) ==
    /\ InProgress(ups, uploadID)
    /\ ups[uploadID].bucket = bucketName
    /\ ups[uploadID].key = key

\* core.CompleteMultipartUpload: the store refuses an id that is not in
\* progress (NoSuchUpload), a part it does not hold under that number and
\* etag (InvalidPart) and a list not in ascending part order
\* (InvalidPartOrder); otherwise the upload ends as the object at key.
coreCompleteMultipartUpload(ups, bucketName, key, uploadID, parts, fault) ==
    IF \/ fault = "CompleteMultipartUpload"
       \/ ~Live(ups, bucketName, key, uploadID)
       \/ \E i \in 1..Len(parts) : parts[i] \notin ups[uploadID].parts
       \/ \E i \in 1..(Len(parts) - 1) : parts[i].part_number >= parts[i + 1].part_number
    THEN [err |-> TRUE, uploads |-> ups]
    ELSE [err |-> FALSE, uploads |-> [ups EXCEPT ![uploadID].state = "completed"]]

\* core.AbortMultipartUpload: the store refuses an id that is not in
\* progress (NoSuchUpload); otherwise it drops the upload and its parts.
coreAbortMultipartUpload(ups, bucketName, key, uploadID, fault) ==
    IF fault = "AbortMultipartUpload" \/ ~Live(ups, bucketName, key, uploadID)
    THEN [err |-> TRUE, uploads |-> ups]
    ELSE [err |-> FALSE,
          uploads |-> [ups EXCEPT ![uploadID].state = "aborted", ![uploadID].parts = {}]]

MultipartInitiate(userInfo, bucket, key, fault) ==
    LET auth == authorizeAndExtract(db, userInfo, bucket, ConsumedBody)
        cors == <<"SetBucketCors", "">>
        new == <<"NewMultipartUpload", key>>
        made == coreNewMultipartUpload(uploads, auth.cfg.bucket_name, key, fault)
        S(status, msg, body, calls) ==
            Served("MultipartInitiate", userInfo, bucket, auth.cfg, auth.authz,
                   status, msg, body, calls)
    IN  /\ last = Idle
        /\ \E id \in UploadIds : uploads[id].state = "none"
        /\ last' =
            IF fault = "bind" THEN Invalid("MultipartInitiate", userInfo, "", "invalid JSON")
            ELSE IF key = ""
            THEN Invalid("MultipartInitiate", userInfo, bucket, "key is required")
            ELSE IF ~auth.ok THEN Rejected("MultipartInitiate", userInfo, bucket, auth)
            \* log.Fatal(err): the process exits, no response is written
            ELSE IF fault = "SetBucketCors" THEN S(0, "log.Fatal", <<>>, <<cors>>)
            ELSE IF made.err
            THEN S(400, "NewMultipartUpload failed", <<>>, <<cors, new>>)
            ELSE S(200, "", <<bucket, key, made.upload_id>>, <<cors, new>>)
        /\ uploads' = IF last'.status = 200 THEN made.uploads ELSE uploads
        /\ grant' = grantAfter(grant, db, last')
        /\ UNCHANGED <<db, objects, moveLog, client, inflight, lockout>>

\* The part_number test of MultipartPresignPart with the lower end at 0.
partNumberOutOfRange_FromZero(partNumber) ==
    partNumber < 0 \/ partNumber > MaxPartNumber

partNumberOutOfRange(partNumber) ==
    partNumber < MinPartNumber \/ partNumber > MaxPartNumber

\* The lifetime of MultipartPresignPart cut down to the default.
presignPartExpires_Clamped(expiresSeconds) ==
    IF expiresSeconds <= 0 \/ expiresSeconds > DefaultExpires
    THEN DefaultExpires ELSE expiresSeconds

\* expires := req.ExpiresSeconds; if expires <= 0 { expires = 900 }
presignPartExpires(expiresSeconds) ==
    IF expiresSeconds <= 0 THEN DefaultExpires ELSE expiresSeconds

MultipartPresignPart(userInfo, bucket, key, uploadID, partNumber, expiresSeconds, fault) ==
    /\ last = Idle
    /\ last' =
        LET auth == authorizeAndExtract(db, userInfo, bucket, ConsumedBody)
            expires == presignPartExpires(expiresSeconds)
            call == <<"Presign", key, expires>>
            in == <<key, uploadID, partNumber, expiresSeconds>>
            S(status, msg, body, calls) ==
                [Served("MultipartPresignPart", userInfo, bucket, auth.cfg, auth.authz,
                        status, msg, body, calls) EXCEPT !.input = in]
        IN  IF fault = "bind"
            THEN Invalid("MultipartPresignPart", userInfo, "", "invalid JSON")
            ELSE IF key = "" \/ uploadID = ""
            THEN [Invalid("MultipartPresignPart", userInfo, bucket,
                          "multipart presign failed. key and upload_id are required")
                     EXCEPT !.input = in]
            ELSE IF partNumberOutOfRange(partNumber)
            THEN [Invalid("MultipartPresignPart", userInfo, bucket,
                          "part_number must be between 1 and 10000")
                     EXCEPT !.input = in]
            ELSE IF ~auth.ok
            THEN [Rejected("MultipartPresignPart", userInfo, bucket, auth)
                     EXCEPT !.input = in]
            ELSE IF expires > SevenDays
            THEN S(400, "expires_seconds too large", <<>>, <<>>)
            ELSE IF fault = "Presign" THEN S(400, "Presign failed", <<>>, <<call>>)
            ELSE S(200, "", <<"url", partNumber, uploadID>>, <<call>>)
    /\ grant' = grantAfter(grant, db, last')
    /\ UNCHANGED <<db, objects, moveLog, uploads, client, inflight, lockout>>

\* sort.Slice on fewer than 12 elements is an insertion sort on PartNumber.
RECURSIVE insertPart(_, _)
insertPart(sorted, p) ==
    IF sorted = <<>> THEN <<p>>
    ELSE IF p.part_number < sorted[Len(sorted)].part_number
         THEN Append(insertPart(SubSeq(sorted, 1, Len(sorted) - 1), p), sorted[Len(sorted)])
         ELSE Append(sorted, p)

\* The parts as submitted, in the caller's order.
sortParts_AsSubmitted(parts) == parts

RECURSIVE sortParts(_)
sortParts(parts) ==
    IF parts = <<>> THEN <<>>
    ELSE insertPart(sortParts(SubSeq(parts, 1, Len(parts) - 1)), parts[Len(parts)])

\* The entry test of MultipartComplete without the etag.
validPart_AnyEtag(p) ==
    ~(p.part_number < MinPartNumber \/ p.part_number > MaxPartNumber)

validPart(p) ==
    ~(p.part_number < MinPartNumber \/ p.part_number > MaxPartNumber \/ p.etag = "")

\* The object a completed upload leaves: its parts in part order.
RECURSIVE assemble(_)
assemble(parts) ==
    IF parts = <<>> THEN "" ELSE Head(parts).etag \o assemble(Tail(parts))

\* MultipartComplete that answers 200 whatever the store returned.
MultipartComplete_IgnoresError(userInfo, bucket, key, uploadID, parts, fault) ==
    LET auth == authorizeAndExtract(db, userInfo, bucket, ConsumedBody)
        sorted == sortParts(parts)
        call == <<"CompleteMultipartUpload", key, uploadID, sorted>>
        done == coreCompleteMultipartUpload(uploads, auth.cfg.bucket_name, key, uploadID,
                                            sorted, fault)
        S(status, msg, body, calls) ==
            [Served("MultipartComplete", userInfo, bucket, auth.cfg, auth.authz,
                    status, msg, body, calls) EXCEPT !.input = <<key, uploadID, parts>>]
    IN  /\ last = Idle
        /\ last' =
            IF fault = "bind" THEN Invalid("MultipartComplete", userInfo, "", "invalid JSON")
            ELSE IF key = "" \/ uploadID = ""
            THEN [Invalid("MultipartComplete", userInfo, bucket,
                          "multipart complete failed. key and upload_id are required")
                     EXCEPT !.input = <<key, uploadID, parts>>]
            ELSE IF Len(parts) = 0
            THEN [Invalid("MultipartComplete", userInfo, bucket, "parts is required")
                     EXCEPT !.input = <<key, uploadID, parts>>]
            ELSE IF ~auth.ok
            THEN [Rejected("MultipartComplete", userInfo, bucket, auth)
                     EXCEPT !.input = <<key, uploadID, parts>>]
            ELSE IF \E i \in 1..Len(parts) : ~validPart(parts[i])
            THEN S(400, "each part must have valid part_number and non-empty etag",
                   <<>>, <<>>)
            ELSE S(200, "Multipart upload completed", <<>>, <<call>>)
        /\ uploads' = IF last'.status = 200 THEN done.uploads ELSE uploads
        /\ objects' =
            IF last'.status = 200 /\ ~done.err
            THEN [objects EXCEPT ![auth.cfg.bucket_name] =
                     [k \in DOMAIN @ \cup {key} |-> IF k = key THEN assemble(sorted) ELSE @[k]]]
            ELSE objects
        /\ moveLog' = IF last'.status = 200 THEN NoMoveLog ELSE moveLog
        /\ grant' = grantAfter(grant, db, last')
        /\ UNCHANGED <<db, client, inflight, lockout>>

MultipartComplete(userInfo, bucket, key, uploadID, parts, fault) ==
    LET auth == authorizeAndExtract(db, userInfo, bucket, ConsumedBody)
        sorted == sortParts(parts)
        call == <<"CompleteMultipartUpload", key, uploadID, sorted>>
        done == coreCompleteMultipartUpload(uploads, auth.cfg.bucket_name, key, uploadID,
                                            sorted, fault)
        S(status, msg, body, calls) ==
            [Served("MultipartComplete", userInfo, bucket, auth.cfg, auth.authz,
                    status, msg, body, calls) EXCEPT !.input = <<key, uploadID, parts>>]
    IN  /\ last = Idle
        /\ last' =
            IF fault = "bind" THEN Invalid("MultipartComplete", userInfo, "", "invalid JSON")
            ELSE IF key = "" \/ uploadID = ""
            THEN [Invalid("MultipartComplete", userInfo, bucket,
                          "multipart complete failed. key and upload_id are required")
                     EXCEPT !.input = <<key, uploadID, parts>>]
            ELSE IF Len(parts) = 0
            THEN [Invalid("MultipartComplete", userInfo, bucket, "parts is required")
                     EXCEPT !.input = <<key, uploadID, parts>>]
            ELSE IF ~auth.ok
            THEN [Rejected("MultipartComplete", userInfo, bucket, auth)
                     EXCEPT !.input = <<key, uploadID, parts>>]
            ELSE IF \E i \in 1..Len(parts) : ~validPart(parts[i])
            THEN S(400, "each part must have valid part_number and non-empty etag",
                   <<>>, <<>>)
            ELSE IF done.err
            THEN S(400, "CompleteMultipartUpload failed", <<>>, <<call>>)
            ELSE S(200, "Multipart upload completed", <<>>, <<call>>)
        /\ uploads' = IF last'.status = 200 THEN done.uploads ELSE uploads
        /\ objects' =
            IF last'.status = 200
            THEN [objects EXCEPT ![auth.cfg.bucket_name] =
                     [k \in DOMAIN @ \cup {key} |-> IF k = key THEN assemble(sorted) ELSE @[k]]]
            ELSE objects
        /\ moveLog' = IF last'.status = 200 THEN NoMoveLog ELSE moveLog
        /\ grant' = grantAfter(grant, db, last')
        /\ UNCHANGED <<db, client, inflight, lockout>>

\* MultipartAbort that answers without the store having dropped the upload.
MultipartAbort_NoStoreCall(userInfo, bucket, key, uploadID, fault) ==
    LET auth == authorizeAndExtract(db, userInfo, bucket, ConsumedBody)
        call == <<"AbortMultipartUpload", key, uploadID>>
        gone == coreAbortMultipartUpload(uploads, auth.cfg.bucket_name, key, uploadID, fault)
        S(status, msg, body, calls) ==
            [Served("MultipartAbort", userInfo, bucket, auth.cfg, auth.authz,
                    status, msg, body, calls)
                EXCEPT !.fault = IF fault = "" THEN <<>> ELSE <<fault, key>>]
    IN  /\ last = Idle
        /\ last' =
            IF fault = "bind" THEN Invalid("MultipartAbort", userInfo, "", "invalid JSON")
            ELSE IF key = "" \/ uploadID = ""
            THEN Invalid("MultipartAbort", userInfo, bucket,
                         "multipart abort failed. key and upload_id are required")
            ELSE IF ~auth.ok THEN Rejected("MultipartAbort", userInfo, bucket, auth)
            ELSE IF fault = "AbortMultipartUpload"
            THEN S(400, "AbortMultipartUpload failed", <<>>, <<call>>)
            ELSE S(200, "Multipart upload aborted", <<>>, <<call>>)
        /\ uploads' = uploads
        /\ grant' = grantAfter(grant, db, last')
        /\ UNCHANGED <<db, objects, moveLog, client, inflight, lockout>>

MultipartAbort(userInfo, bucket, key, uploadID, fault) ==
    LET auth == authorizeAndExtract(db, userInfo, bucket, ConsumedBody)
        call == <<"AbortMultipartUpload", key, uploadID>>
        gone == coreAbortMultipartUpload(uploads, auth.cfg.bucket_name, key, uploadID, fault)
        S(status, msg, body, calls) ==
            [Served("MultipartAbort", userInfo, bucket, auth.cfg, auth.authz,
                    status, msg, body, calls)
                EXCEPT !.fault = IF fault = "" THEN <<>> ELSE <<fault, key>>]
    IN  /\ last = Idle
        /\ last' =
            IF fault = "bind" THEN Invalid("MultipartAbort", userInfo, "", "invalid JSON")
            ELSE IF key = "" \/ uploadID = ""
            THEN Invalid("MultipartAbort", userInfo, bucket,
                         "multipart abort failed. key and upload_id are required")
            ELSE IF ~auth.ok THEN Rejected("MultipartAbort", userInfo, bucket, auth)
            ELSE IF gone.err
            THEN S(400, "AbortMultipartUpload failed", <<>>, <<call>>)
            ELSE S(200, "Multipart upload aborted", <<>>, <<call>>)
        /\ uploads' = IF last'.status = 200 THEN gone.uploads ELSE uploads
        /\ grant' = grantAfter(grant, db, last')
        /\ UNCHANGED <<db, objects, moveLog, client, inflight, lockout>>

(***************************************************************************)
(* Move.  A move works on the bucket of the connection it resolved:        *)
(*   store.objects  object key -> content, as the calls so far left it     *)
(*   store.fault    <<verb, key>> of the call that fails in this request   *)
(*                  (<<>> when none); a failing listing yields its keys    *)
(*                  first, then the error                                  *)
(***************************************************************************)
MaxKeyLen == 7      \* the longest object key the store accepts
MaxObjects == 2     \* objects S3 clients put into a bucket

HasSuffix(s, suffix) ==
    Len(s) >= Len(suffix) /\ SubSeq(s, Len(s) - Len(suffix) + 1, Len(s)) = suffix

TrimPrefix(s, prefix) ==
    IF HasPrefix(s, prefix) THEN SubSeq(s, Len(prefix) + 1, Len(s)) ELSE s

\* normalizePrefix that appends the separator without looking at the suffix.
normalizePrefix_AlwaysAppends(p) ==
    IF p = "" THEN "" ELSE p \o "/"

normalizePrefix(p) ==
    IF p = "" THEN ""
    ELSE IF ~HasSuffix(p, "/") THEN p \o "/"
    ELSE p

\* mio.StatObject: nil error exactly when the store answers and has the object.
mioStatObject(store, key) ==
    [err |-> key \notin DOMAIN store.objects \/ store.fault = <<"StatObject", key>>]

\* mio.CopyObject: server-side copy, replacing what the destination key held.
mioCopyObject(store, fromKey, toKey) ==
    LET objs == store.objects
    IN  IF \/ store.fault = <<"CopyObject", fromKey>>
           \/ fromKey \notin DOMAIN objs             \* NoSuchKey
           \/ Len(toKey) > MaxKeyLen                 \* KeyTooLongError
        THEN [err |-> TRUE, store |-> store]
        ELSE [err |-> FALSE,
              store |-> [store EXCEPT !.objects =
                            [k \in DOMAIN objs \cup {toKey} |->
                                IF k = toKey THEN objs[fromKey] ELSE objs[k]]]]

\* mio.RemoveObject: removing a key that holds nothing succeeds.
mioRemoveObject(store, key) ==
    LET objs == store.objects
    IN  IF store.fault = <<"RemoveObject", key>>
        THEN [err |-> TRUE, store |-> store]
        ELSE [err |-> FALSE,
              store |-> [store EXCEPT !.objects = [k \in DOMAIN objs \ {key} |-> objs[k]]]]

\* httpError{status, msg, body} ; status 0 is a nil error
httpError(status, msg, body, calls) ==
    [status |-> status, msg |-> msg, body |-> body, calls |-> calls]

isSingleObjectMove(req) == req.from_key # "" \/ req.to_key # ""

\* ensureDestinationAbsent that issues the stat and does not look at its result.
ensureDestinationAbsent_Blind(store, key, overwrite) ==
    IF overwrite THEN httpError(0, "", <<>>, <<>>)
    ELSE httpError(0, "", <<>>, <<<<"StatObject", key>>>>)

ensureDestinationAbsent(store, key, overwrite) ==
    IF overwrite THEN httpError(0, "", <<>>, <<>>)
    ELSE IF ~mioStatObject(store, key).err
    THEN httpError(409, "destination object already exists", <<>>, <<<<"StatObject", key>>>>)
    ELSE httpError(0, "", <<>>, <<<<"StatObject", key>>>>)

\* copyAndDelete that returns nil after the copy, without removing the source.
copyAndDelete_KeepsSource(store, fromKey, toKey) ==
    LET copy == <<"CopyObject", fromKey, toKey>>
        copied == mioCopyObject(store, fromKey, toKey)
    IN  IF copied.err
        THEN [err |-> httpError(400, "CopyObject failed", <<>>, <<copy>>), store |-> store]
        ELSE [err |-> httpError(0, "", <<>>, <<copy>>), store |-> copied.store]

\* copyAndDelete that does not return on a copy error before it removes the source.
copyAndDelete_RemovesAnyway(store, fromKey, toKey) ==
    LET copy == <<"CopyObject", fromKey, toKey>>
        remove == <<"RemoveObject", fromKey>>
        copied == mioCopyObject(store, fromKey, toKey)
        removed == mioRemoveObject(copied.store, fromKey)
    IN  IF removed.err
        THEN [err |-> httpError(400, "RemoveObject failed", <<>>, <<copy, remove>>),
              store |-> copied.store]
        ELSE IF copied.err
        THEN [err |-> httpError(400, "CopyObject failed", <<>>, <<copy, remove>>),
              store |-> removed.store]
        ELSE [err |-> httpError(0, "", <<>>, <<copy, remove>>), store |-> removed.store]

\* the error of copyAndDelete, and the bucket as its calls left it
copyAndDelete(store, fromKey, toKey) ==
    LET copy == <<"CopyObject", fromKey, toKey>>
        remove == <<"RemoveObject", fromKey>>
        copied == mioCopyObject(store, fromKey, toKey)
        removed == mioRemoveObject(copied.store, fromKey)
    IN  IF copied.err
        THEN [err |-> httpError(400, "CopyObject failed", <<>>, <<copy>>), store |-> store]
        ELSE IF removed.err
        THEN [err |-> httpError(400, "RemoveObject failed", <<>>, <<copy, remove>>),
              store |-> copied.store]
        ELSE [err |-> httpError(0, "", <<>>, <<copy, remove>>), store |-> removed.store]

\* moveSingleObject without the from_key == to_key test.
moveSingleObject_NoEqualTest(store, req) ==
    LET absent == ensureDestinationAbsent(store, req.to_key, req.overwrite)
        moved == copyAndDelete(store, req.from_key, req.to_key)
    IN  IF req.from_key = "" \/ req.to_key = ""
        THEN [err |-> httpError(400, "from_key and to_key are required for single object move",
                                <<>>, <<>>),
              store |-> store]
        ELSE IF absent.status # 0 THEN [err |-> absent, store |-> store]
        ELSE [err |-> [moved.err EXCEPT !.calls = absent.calls \o moved.err.calls],
              store |-> moved.store]

moveSingleObject(store, req) ==
    LET absent == ensureDestinationAbsent(store, req.to_key, req.overwrite)
        moved == copyAndDelete(store, req.from_key, req.to_key)
    IN  IF req.from_key = "" \/ req.to_key = ""
        THEN [err |-> httpError(400, "from_key and to_key are required for single object move",
                                <<>>, <<>>),
              store |-> store]
        ELSE IF req.from_key = req.to_key
        THEN [err |-> httpError(400, "from_key and to_key must be different", <<>>, <<>>),
              store |-> store]
        ELSE IF absent.status # 0 THEN [err |-> absent, store |-> store]
        ELSE [err |-> [moved.err EXCEPT !.calls = absent.calls \o moved.err.calls],
              store |-> moved.store]

\* validatePrefixMove that takes an empty prefix for the bucket root.
validatePrefixMove_EmptyIsRoot(req) ==
    LET fromPrefix == normalizePrefix(req.from_prefix)
        toPrefix == normalizePrefix(req.to_prefix)
    IN  IF fromPrefix = toPrefix
        THEN [status |-> 400, fromPrefix |-> "", toPrefix |-> "",
              msg |-> "from_prefix and to_prefix must be different"]
        ELSE [status |-> 0, fromPrefix |-> fromPrefix, toPrefix |-> toPrefix, msg |-> ""]

validatePrefixMove(req) ==
    LET fromPrefix == normalizePrefix(req.from_prefix)
        toPrefix == normalizePrefix(req.to_prefix)
    IN  IF fromPrefix = "" \/ toPrefix = ""
        THEN [status |-> 400, fromPrefix |-> "", toPrefix |-> "",
              msg |-> "either (from_key,to_key) or (from_prefix,to_prefix) must be provided"]
        ELSE IF fromPrefix = toPrefix
        THEN [status |-> 400, fromPrefix |-> "", toPrefix |-> "",
              msg |-> "from_prefix and to_prefix must be different"]
        ELSE [status |-> 0, fromPrefix |-> fromPrefix, toPrefix |-> toPrefix, msg |-> ""]

prefixMoveConflictOrErr(err, newKey) ==
    IF err.status # 409 THEN err
    ELSE [err EXCEPT !.msg = "destination object already exists",
                     !.body = <<"object", newKey>>]

withMoveKeys(err, fromKey, toKey) ==
    IF err.status # 400 THEN err
    ELSE IF err.body = <<>> THEN [err EXCEPT !.body = <<"from", fromKey, "to", toKey>>]
    ELSE err

\* (n, err) of moveOnePrefixObject, with the calls it issued and the bucket after them
moveOnePrefixObject(store, req, fromPrefix, toPrefix, fromKey) ==
    LET rel == TrimPrefix(fromKey, fromPrefix)
        newKey == toPrefix \o rel
        absent == ensureDestinationAbsent(store, newKey, req.overwrite)
        moved == copyAndDelete(store, fromKey, newKey)
        calls == absent.calls \o moved.err.calls
    IN  IF rel = "" THEN [n |-> 0, err |-> httpError(0, "", <<>>, <<>>), store |-> store]
        ELSE IF absent.status # 0
        THEN [n |-> 0, err |-> prefixMoveConflictOrErr(absent, newKey), store |-> store]
        ELSE IF moved.err.status # 0
        THEN [n |-> 0,
              err |-> withMoveKeys([moved.err EXCEPT !.calls = calls], fromKey, newKey),
              store |-> moved.store]
        ELSE [n |-> 1, err |-> [moved.err EXCEPT !.calls = calls], store |-> moved.store]

\* The loop that goes on to the next listed object after a failed one and
\* returns the first error when the listing ends.
RECURSIVE moveListed_Continues(_, _, _, _, _, _, _, _)
moveListed_Continues(store, req, fromPrefix, toPrefix, listed, i, moved, calls) ==
    IF i > Len(listed)
    THEN IF store.fault = <<"ListObjects", fromPrefix>>
         THEN [moved |-> moved, err |-> httpError(400, "ListObjects failed", <<>>, calls),
               store |-> store]
         ELSE [moved |-> moved, err |-> httpError(0, "", <<>>, calls), store |-> store]
    ELSE LET one == moveOnePrefixObject(store, req, fromPrefix, toPrefix, listed[i])
             rest == moveListed_Continues(one.store, req, fromPrefix, toPrefix, listed, i + 1,
                                          moved + one.n, calls \o one.err.calls)
         IN  IF one.err.status # 0
             THEN [moved |-> moved,
                   err |-> [one.err EXCEPT !.calls = rest.err.calls],
                   store |-> rest.store]
             ELSE rest

\* the loop over the listing channel, from the i-th listed object on
RECURSIVE moveListed(_, _, _, _, _, _, _, _)
moveListed(store, req, fromPrefix, toPrefix, listed, i, moved, calls) ==
    IF i > Len(listed)
    THEN IF store.fault = <<"ListObjects", fromPrefix>>
         THEN [moved |-> moved, err |-> httpError(400, "ListObjects failed", <<>>, calls),
               store |-> store]
         ELSE [moved |-> moved, err |-> httpError(0, "", <<>>, calls), store |-> store]
    ELSE LET one == moveOnePrefixObject(store, req, fromPrefix, toPrefix, listed[i])
         IN  IF one.err.status # 0
             THEN [moved |-> moved,
                   err |-> [one.err EXCEPT !.calls = calls \o one.err.calls],
                   store |-> one.store]
             ELSE moveListed(one.store, req, fromPrefix, toPrefix, listed, i + 1,
                             moved + one.n, calls \o one.err.calls)

moveByPrefix(store, req) ==
    LET v == validatePrefixMove(req)
    IN  IF v.status # 0
        THEN [moved |-> 0, err |-> httpError(v.status, v.msg, <<>>, <<>>), store |-> store]
        ELSE moveListed(store, req, v.fromPrefix, v.toPrefix,
                        mioListObjects(store, v.fromPrefix), 1, 0,
                        <<<<"ListObjects", v.fromPrefix>>>>)

\* c.JSON(he.status, he.body) when the error carries a body, else {"error": msg}
respondMoveError(userInfo, req, auth, err) ==
    Served("Move", userInfo, req.bucket, auth.cfg, auth.authz, err.status, err.msg,
           err.body, err.calls)

\* The destination keys of the per-object steps a move completed.
movedKeys(served) ==
    LET calls == served.calls
    IN  {calls[j - 1][3] :
            j \in {i \in 2..Len(calls) :
                      /\ calls[i][1] = "RemoveObject"
                      /\ ~(i = Len(calls) /\ served.fault = <<"RemoveObject", calls[i][2]>>)}}

moveLogAfter(log, served, before) ==
    IF served.op = "Move" /\ log.stage = "partial" /\ served.req = log.req
    THEN [log EXCEPT !.stage = "retried"]
    ELSE IF /\ served.op = "Move"
            /\ ~isSingleObjectMove(served.req)
            /\ served.status # 200
            /\ served.calls # <<>>
    THEN [stage |-> "partial", req |-> served.req, before |-> before,
          moved |-> movedKeys(served)]
    ELSE NoMoveLog

Move(userInfo, req, storeFault, fault) ==
    LET auth == authorizeAndExtract(db, userInfo, req.bucket, ConsumedBody)
        bucketName == auth.cfg.bucket_name
        store == Store(objects[bucketName], storeFault)
        single == moveSingleObject(store, req)
        byPrefix == moveByPrefix(store, req)
        served ==
            IF fault = "bind" THEN Invalid("Move", userInfo, "", "invalid JSON")
            ELSE IF ~auth.ok THEN Rejected("Move", userInfo, req.bucket, auth)
            ELSE IF isSingleObjectMove(req)
            THEN IF single.err.status # 0
                 THEN respondMoveError(userInfo, req, auth, single.err)
                 ELSE Served("Move", userInfo, req.bucket, auth.cfg, auth.authz, 200, "",
                             <<"moved", 1>>, single.err.calls)
            ELSE IF byPrefix.err.status # 0
            THEN respondMoveError(userInfo, req, auth, byPrefix.err)
            ELSE Served("Move", userInfo, req.bucket, auth.cfg, auth.authz, 200, "",
                        <<"moved", byPrefix.moved>>, byPrefix.err.calls)
        after ==
            IF isSingleObjectMove(req) THEN single.store.objects
            ELSE byPrefix.store.objects
    IN  /\ last = Idle
        /\ last' = IF fault = "bind" THEN served
                   ELSE [served EXCEPT !.req = req, !.fault = storeFault]
        /\ grant' = grantAfter(grant, db, last')
        /\ objects' = IF fault # "bind" /\ auth.ok
                      THEN [objects EXCEPT ![bucketName] = after]
                      ELSE objects
        /\ moveLog' = IF fault # "bind" /\ auth.ok
                      THEN moveLogAfter(moveLog, last', objects[bucketName])
                      ELSE moveLog
        /\ UNCHANGED <<db, uploads, client, inflight, lockout>>

(***************************************************************************)
(* The earlier Move, written inline in the handler.  What follows is its   *)
(* part after the binding, the authorization and Connect, which the        *)
(* refactoring left as they were: the response it writes, the store calls  *)
(* it issues and the bucket after them.                                    *)
(***************************************************************************)
\* for obj := range ch { ... } of the inline Move, from the i-th listed object on
RECURSIVE inlineListed(_, _, _, _, _, _, _, _)
inlineListed(store, req, fromPrefix, toPrefix, listed, i, moved, calls) ==
    IF i > Len(listed)
    THEN IF store.fault = <<"ListObjects", fromPrefix>>
         THEN [err |-> httpError(400, "ListObjects failed", <<>>, calls), store |-> store]
         ELSE [err |-> httpError(200, "", <<"moved", moved>>, calls), store |-> store]
    ELSE LET fromKey == listed[i]
             rel == TrimPrefix(fromKey, fromPrefix)
             newKey == toPrefix \o rel
             stat == <<"StatObject", newKey>>
             copy == <<"CopyObject", fromKey, newKey>>
             remove == <<"RemoveObject", fromKey>>
             stats == IF req.overwrite THEN calls ELSE Append(calls, stat)
             copied == mioCopyObject(store, fromKey, newKey)
             removed == mioRemoveObject(copied.store, fromKey)
         IN  IF rel = ""
             THEN inlineListed(store, req, fromPrefix, toPrefix, listed, i + 1, moved, calls)
             ELSE IF ~req.overwrite /\ ~mioStatObject(store, newKey).err
             THEN [err |-> httpError(409, "destination object already exists",
                                     <<"object", newKey>>, stats),
                   store |-> store]
             ELSE IF copied.err
             THEN [err |-> httpError(400, "CopyObject failed",
                                     <<"from", fromKey, "to", newKey>>, Append(stats, copy)),
                   store |-> store]
             ELSE IF removed.err
             THEN [err |-> httpError(400, "RemoveObject failed", <<"key", fromKey>>,
                                     stats \o <<copy, remove>>),
                   store |-> copied.store]
             ELSE inlineListed(removed.store, req, fromPrefix, toPrefix, listed, i + 1,
                               moved + 1, stats \o <<copy, remove>>)

MoveInline(store, req) ==
    LET stat == <<"StatObject", req.to_key>>
        copy == <<"CopyObject", req.from_key, req.to_key>>
        remove == <<"RemoveObject", req.from_key>>
        stats == IF req.overwrite THEN <<>> ELSE <<stat>>
        copied == mioCopyObject(store, req.from_key, req.to_key)
        removed == mioRemoveObject(copied.store, req.from_key)
        fromPrefix == normalizePrefix(req.from_prefix)
        toPrefix == normalizePrefix(req.to_prefix)
        refused(status, msg) == [err |-> httpError(status, msg, <<>>, <<>>), store |-> store]
    IN  IF req.from_key # "" \/ req.to_key # ""
        THEN IF req.from_key = "" \/ req.to_key = ""
             THEN refused(400, "from_key and to_key are required for single object move")
             ELSE IF req.from_key = req.to_key
             THEN refused(400, "from_key and to_key must be different")
             ELSE IF ~req.overwrite /\ ~mioStatObject(store, req.to_key).err
             THEN [err |-> httpError(409, "destination object already exists", <<>>, stats),
                   store |-> store]
             ELSE IF copied.err
             THEN [err |-> httpError(400, "CopyObject failed", <<>>, Append(stats, copy)),
                   store |-> store]
             ELSE IF removed.err
             THEN [err |-> httpError(400, "RemoveObject failed", <<>>,
                                     stats \o <<copy, remove>>),
                   store |-> copied.store]
             ELSE [err |-> httpError(200, "", <<"moved", 1>>, stats \o <<copy, remove>>),
                   store |-> removed.store]
        ELSE IF fromPrefix = "" \/ toPrefix = ""
        THEN refused(400, "either (from_key,to_key) or (from_prefix,to_prefix) must be provided")
        ELSE IF fromPrefix = toPrefix
        THEN refused(400, "from_prefix and to_prefix must be different")
        ELSE inlineListed(store, req, fromPrefix, toPrefix, mioListObjects(store, fromPrefix),
                          1, 0, <<<<"ListObjects", fromPrefix>>>>)

\* An S3 client (the browser's presigned upload) stores an object.
StorePut(bucketName, key, content) ==
    /\ last = Idle
    /\ Cardinality(DOMAIN objects[bucketName]) < MaxObjects
    /\ objects' = [objects EXCEPT ![bucketName] =
                      [k \in DOMAIN @ \cup {key} |-> IF k = key THEN content ELSE @[k]]]
    /\ moveLog' = NoMoveLog
    /\ UNCHANGED <<db, last, grant, uploads, client, inflight, lockout>>

(***************************************************************************)
(* The connection registry: add_connection, delete_connection and          *)
(* list_connections on every connection record of the model.               *)
(***************************************************************************)
RegistryUsers == {Alice, Bob, Carol, Root, Anonymous}

Next ==
    \/ \E u \in RegistryUsers, cfg \in Configs : AddConnection(u, cfg, "")
    \/ \E u \in RegistryUsers : AddConnection(u, NoConfig, "bind")
    \/ \E u \in RegistryUsers, id \in Ids : DeleteConnection(u, id, "")
    \/ \E u \in RegistryUsers : DeleteConnection(u, "", "bind")
    \/ \E u \in RegistryUsers : ListConnection(u)
    \/ Respond

Spec == Init /\ [][Next]_vars

(***************************************************************************)
(* The object gateway: every object, move and multipart handler, on        *)
(* requests that reach each of its branches, over a registry that a few    *)
(* add_connection and delete_connection calls build.                       *)
(***************************************************************************)
GatewayConfigs ==
    {BucketConfig("dev", "dev", "s1", <<"a@x.com">>, <<>>),
     BucketConfig("dev", "dev", "s1", <<"a@x.com", "b@x.com">>, <<>>),
     BucketConfig("dev", "data", "s1", <<>>, <<"team">>),
     BucketConfig("dev", "data", "s1", <<"a@x.com">>, <<"team">>),
     BucketConfig("data", "data", "s1", <<>>, <<>>)}

Buckets == Ids \cup {""}

\* <<key or filename, fault>>
ObjectRequests(verbs) == {<<"a/x", f>> : f \in {"", "bind"} \cup verbs}

\* <<key, expires_seconds, fault>>
PresignDownloadRequests ==
    {<<"a/x", 0, "">>, <<"a/x", 60, "Presign">>, <<"a/x", SevenDays + 1, "">>,
     <<"", 0, "">>, <<"a/x", 0, "bind">>}

\* <<key, fault>>: the initiate requests that end before the store names an
\* upload; uploads that begin are followed in SpecUpload.
InitiateRequests ==
    {<<"a/x", "bind">>, <<"a/x", "SetBucketCors">>, <<"a/x", "NewMultipartUpload">>,
     <<"", "">>}

\* <<key, upload_id, part_number, expires_seconds, fault>>
PresignPartRequests ==
    {<<"a/x", "upload-1", n, 0, "">> : n \in {0, 1, MaxPartNumber, MaxPartNumber + 1}}
    \cup {<<"a/x", "upload-1", 1, e, "">> :
            e \in {-1, 60, DefaultExpires, 3600, SevenDays, SevenDays + 1}}
    \cup {<<"a/x", "upload-1", 2, 60, "Presign">>,
          <<"", "upload-1", 1, 0, "">>, <<"a/x", "", 1, 0, "">>,
          <<"a/x", "upload-1", 1, 0, "bind">>}

Part(n, etag) == [part_number |-> n, etag |-> etag]

\* <<key, upload_id, parts, fault>>
CompleteRequests ==
    {<<"a/x", "upload-1", parts, "">> :
        parts \in {<<>>, <<Part(1, "e1")>>, <<Part(2, "e2"), Part(1, "e1")>>,
                   <<Part(3, "e3"), Part(1, "e1"), Part(2, "e2")>>,
                   <<Part(1, "e1b"), Part(1, "e1")>>,
                   <<Part(0, "e0")>>, <<Part(1, "")>>, <<Part(1, "e1"), Part(2, "")>>,
                   <<Part(MaxPartNumber + 1, "e")>>}}
    \cup {<<"a/x", "upload-1", <<Part(1, "e1")>>, "CompleteMultipartUpload">>,
          <<"", "upload-1", <<Part(1, "e1")>>, "">>, <<"a/x", "", <<Part(1, "e1")>>, "">>,
          <<"a/x", "upload-1", <<Part(1, "e1")>>, "bind">>}

\* <<key, upload_id, fault>>
AbortRequests ==
    {<<"a/x", "upload-1", "">>, <<"a/x", "upload-1", "AbortMultipartUpload">>,
     <<"", "upload-1", "">>, <<"a/x", "", "">>, <<"a/x", "upload-1", "bind">>}

\* <<from_key, to_key, from_prefix, to_prefix, overwrite, store fault, fault>>
MoveRequests ==
    {<<"a/x", "b/x", "", "", ow, sf, "">> :
        ow \in BOOLEAN, sf \in {<<>>, <<"StatObject", "b/x">>}}
    \cup {<<"a", "b", "", "", FALSE, <<>>, "bind">>,
          <<"a/x", "a/x", "", "", TRUE, <<>>, "">>,
          <<"a/x", "", "", "", TRUE, <<>>, "">>,
          <<"", "", "a", "a/", TRUE, <<>>, "">>,
          <<"", "", "", "b", TRUE, <<>>, "">>}
    \cup {<<"", "", "a", "b/", ow, sf, "">> :
            ow \in BOOLEAN, sf \in {<<>>, <<"ListObjects", "a/">>}}

NextGateway ==
    \/ \E u \in {Alice, Root}, cfg \in GatewayConfigs : AddConnection(u, cfg, "")
    \/ \E id \in Ids : DeleteConnection(Root, id, "")
    \/ \E u \in Users : Upload(u)
    \/ \E u \in Users, b \in Buckets, r \in ObjectRequests({"RemoveObject"}) :
          Delete(u, b, r[1], r[2])
    \/ \E u \in Users, b \in Buckets, r \in ObjectRequests({"GetObject", "StatObject"}) :
          Download(u, b, r[1], r[2])
    \/ \E u \in Users, b \in Buckets, k \in {"", "a/x"}, f \in {"", "GetObject", "StatObject"} :
          DownloadNative(u, b, k, f)
    \/ \E u \in Users, body \in {Body(b) : b \in Buckets \cup {" dev "}} \cup {ConsumedBody},
          f \in {"", "ListObjects"} :
          ListObjects(u, body, "a/", f)
    \/ \E u \in Users, b \in Buckets, r \in PresignDownloadRequests :
          PresignDownload(u, b, r[1], r[2], r[3])
    \/ \E u \in Users, b \in Buckets, r \in InitiateRequests :
          MultipartInitiate(u, b, r[1], r[2])
    \/ \E u \in Users, b \in Buckets, r \in PresignPartRequests :
          MultipartPresignPart(u, b, r[1], r[2], r[3], r[4], r[5])
    \/ \E u \in Users, b \in Buckets, r \in CompleteRequests :
          MultipartComplete(u, b, r[1], r[2], r[3], r[4])
    \/ \E u \in Users, b \in Buckets, r \in AbortRequests :
          MultipartAbort(u, b, r[1], r[2], r[3])
    \/ \E u \in Users, b \in Buckets, r \in MoveRequests :
          Move(u, ObjectMoveRequest(b, r[1], r[2], r[3], r[4], r[5]), r[6], r[7])
    \/ Respond

SpecGateway == Init /\ [][NextGateway]_vars

(***************************************************************************)
(* Moves on one bucket: the connection "dev" is stored, S3 clients put     *)
(* objects into its bucket, and an authorized and an unauthorized          *)
(* principal send single-object and prefix moves, with and without a       *)
(* failing store call.                                                     *)
(***************************************************************************)
MoveConfig == BucketConfig("dev", "dev", "s1", <<"a@x.com">>, <<>>)

PutKeys == {"a/", "a/x", "a/y", "b/x"}
Contents == {"c1", "c2"}

\* <<from_key, to_key, from_prefix, to_prefix, overwrite, store fault>>
BucketMoveRequests ==
    {<<"a/x", "b/x", "", "", ow, sf>> :
        ow \in BOOLEAN,
        sf \in {<<>>, <<"StatObject", "b/x">>, <<"CopyObject", "a/x">>,
                <<"RemoveObject", "a/x">>}}
    \cup {<<"a/x", "a/x", "", "", TRUE, <<>>>>,
          <<"a/x", "", "", "", TRUE, <<>>>>,
          <<"", "b/x", "", "", FALSE, <<>>>>,
          <<"a/x", "b/x", "a", "b", TRUE, <<>>>>,
          <<"a/x", "", "a", "b", TRUE, <<>>>>}
    \cup {<<"", "", "a", "b/", ow, sf>> :
            ow \in BOOLEAN,
            sf \in {<<>>, <<"CopyObject", "a/y">>, <<"RemoveObject", "a/x">>,
                    <<"ListObjects", "a/">>, <<"StatObject", "b/x">>}}
    \cup {<<"", "", "a/", "a/b", ow, sf>> :
            ow \in BOOLEAN, sf \in {<<>>, <<"CopyObject", "a/y">>}}
    \cup {<<"", "", "a", "a/", TRUE, <<>>>>,
          <<"", "", "", "b", TRUE, <<>>>>,
          <<"", "", "a", "", TRUE, <<>>>>,
          <<"", "", "", "", FALSE, <<>>>>}

InitMove ==
    /\ db = [k \in {"config", BucketIdPrefix \o MoveConfig.bucket_name} |->
                IF k = "config" THEN <<"config.yaml">> ELSE Marshal(MoveConfig)]
    /\ last = Idle
    /\ grant = NoGrant
    /\ objects = [b \in Ids |-> EmptyBucket]
    /\ moveLog = NoMoveLog
    /\ uploads = NoUploads
    /\ client = NoClient
    /\ inflight = NoInflight
    /\ lockout = {}

\* A move request while no stopped prefix move waits for its re-run.
FirstMove(userInfo, req, storeFault) ==
    /\ moveLog.stage # "partial"
    /\ Move(userInfo, req, storeFault, "")

\* The caller sends the request of the stopped prefix move again.
Retry(userInfo, storeFault) ==
    /\ moveLog.stage = "partial"
    /\ Move(userInfo, moveLog.req, storeFault, "")

\* A listing of the bucket, asked for one prefix.
List(userInfo, prefix) ==
    /\ moveLog.stage = "none"
    /\ ListObjects(userInfo, Body(MoveConfig.bucket_id), prefix, "")

NextMove ==
    \/ \E k \in PutKeys, c \in Contents : StorePut(MoveConfig.bucket_name, k, c)
    \/ \E prefix \in {"", "a/"} : List(Alice, prefix)
    \/ \E r \in BucketMoveRequests :
          FirstMove(Alice, ObjectMoveRequest("dev", r[1], r[2], r[3], r[4], r[5]), r[6])
    \/ \E r \in {q \in BucketMoveRequests : q[5] /\ q[6] = <<>>} :
          FirstMove(Bob, ObjectMoveRequest("dev", r[1], r[2], r[3], r[4], r[5]), r[6])
    \/ \E sf \in {<<>>, <<"CopyObject", "a/y">>} : Retry(Alice, sf)
    \/ Respond

SpecMove == InitMove /\ [][NextMove]_vars

(***************************************************************************)
(* One browser upload, ObjectStorageService.uploadObjectMultipart, against *)
(* the gateway and the store, next to complete and abort requests of a     *)
(* second principal for the same upload.  The coordinator issues a gateway *)
(* call when it is at the matching position and moves on when it receives  *)
(* the response; it PUTs a part straight to the store through the          *)
(* presigned URL.                                                          *)
(*   pc              "start", "presign", "put", "complete", "abort" (in    *)
(*                   the catch block), "done", "failed" (the error thrown) *)
(*   err             the step that failed                                  *)
(*   sent            <<call, upload id, status>> of the calls made so far  *)
(***************************************************************************)
UploadKey == "a/x"
Uploader == Alice

EtagOrder == <<"e1", "e2", "e3", "e4">>

\* File sizes and the part size, in bytes: files of up to MaxParts parts, and
\* one that needs more parts than an upload may have.
PartSizeBytes == 2
FileSizes == (0..(MaxParts * PartSizeBytes)) \cup {MaxPartNumber * PartSizeBytes + 1}

\* Math.ceil(totalSize / partSizeBytes), with no floor of one part.
partCount_NoFloor(totalSize) ==
    (totalSize + PartSizeBytes - 1) \div PartSizeBytes

\* Math.max(1, Math.ceil(totalSize / partSizeBytes))
partCount(totalSize) ==
    LET ceil == (totalSize + PartSizeBytes - 1) \div PartSizeBytes
    IN  IF ceil < 1 THEN 1 ELSE ceil

PartCounts == {partCount(totalSize) : totalSize \in FileSizes}

InitUpload ==
    /\ db = [k \in {"config", BucketIdPrefix \o MoveConfig.bucket_name} |->
                IF k = "config" THEN <<"config.yaml">> ELSE Marshal(MoveConfig)]
    /\ last = Idle
    /\ grant = NoGrant
    /\ objects = [b \in Ids |-> EmptyBucket]
    /\ moveLog = NoMoveLog
    /\ uploads = NoUploads
    /\ client \in {[NoClient EXCEPT !.partCount = n] : n \in PartCounts}
    /\ inflight = NoInflight
    /\ lockout = {}

UploadInitiate(fault) ==
    /\ client.pc = "start"
    /\ MultipartInitiate(Uploader, MoveConfig.bucket_id, UploadKey, fault)

UploadPresign(fault) ==
    /\ client.pc = "presign"
    /\ MultipartPresignPart(Uploader, MoveConfig.bucket_id, UploadKey, client.upload_id,
                            client.partNumber, 0, fault)

UploadComplete(fault) ==
    /\ client.pc = "complete"
    /\ MultipartComplete(Uploader, MoveConfig.bucket_id, UploadKey, client.upload_id,
                         client.completedParts, fault)

UploadAbort(fault) ==
    /\ client.pc = "abort"
    /\ MultipartAbort(Uploader, MoveConfig.bucket_id, UploadKey, client.upload_id, fault)

\* The coordinator with no catch block: the error is thrown at once.
clientAfter_NoAbort(c, served) ==
    LET note == [c EXCEPT !.sent = Append(@, <<served.op, c.upload_id, served.status>>)]
        ok == served.status = 200
    IN  IF served.user # Uploader \/ served.op = "idle" THEN c
        ELSE CASE c.pc = "start" /\ ok ->
                    [note EXCEPT !.upload_id = served.body[3],
                                 !.sent = Append(c.sent, <<served.op, served.body[3], 200>>),
                                 !.partNumber = 1,
                                 !.pc = IF c.partCount > MaxPartNumber THEN "failed"
                                        ELSE IF 1 <= c.partCount THEN "presign"
                                        ELSE "complete",
                                 !.err = IF c.partCount > MaxPartNumber THEN "too large" ELSE ""]
               [] c.pc = "start" /\ ~ok -> [note EXCEPT !.pc = "failed", !.err = "initiate"]
               [] c.pc = "presign" /\ ok -> [note EXCEPT !.pc = "put"]
               [] c.pc = "presign" /\ ~ok -> [note EXCEPT !.pc = "failed", !.err = "presign"]
               [] c.pc = "complete" /\ ok -> [note EXCEPT !.pc = "done"]
               [] c.pc = "complete" /\ ~ok -> [note EXCEPT !.pc = "failed", !.err = "complete"]
               [] c.pc = "abort" -> [note EXCEPT !.pc = "failed"]
               [] OTHER -> c

\* uploadObjectMultipart on the response to the call it is waiting for: an
\* error after initiate leads to the catch block, which sends one abort,
\* ignores the abort's own outcome and throws the error again.
clientAfter(c, served) ==
    LET note == [c EXCEPT !.sent = Append(@, <<served.op, c.upload_id, served.status>>)]
        ok == served.status = 200
    IN  IF served.user # Uploader \/ served.op = "idle" THEN c
        ELSE CASE c.pc = "start" /\ ok ->
                    [note EXCEPT !.upload_id = served.body[3],
                                 !.sent = Append(c.sent, <<served.op, served.body[3], 200>>),
                                 !.partNumber = 1,
                                 !.pc = IF c.partCount > MaxPartNumber THEN "abort"
                                        ELSE IF 1 <= c.partCount THEN "presign"
                                        ELSE "complete",
                                 !.err = IF c.partCount > MaxPartNumber THEN "too large" ELSE ""]
               [] c.pc = "start" /\ ~ok -> [note EXCEPT !.pc = "failed", !.err = "initiate"]
               [] c.pc = "presign" /\ ok -> [note EXCEPT !.pc = "put"]
               [] c.pc = "presign" /\ ~ok -> [note EXCEPT !.pc = "abort", !.err = "presign"]
               [] c.pc = "complete" /\ ok -> [note EXCEPT !.pc = "done"]
               [] c.pc = "complete" /\ ~ok -> [note EXCEPT !.pc = "abort", !.err = "complete"]
               [] c.pc = "abort" -> [note EXCEPT !.pc = "failed"]
               [] OTHER -> c

\* gin has written the response and the caller has it.
Receive ==
    /\ last # Idle
    /\ last.status # 0
    /\ last' = Idle
    /\ client' = clientAfter(client, last)
    /\ UNCHANGED <<db, grant, objects, moveLog, uploads, inflight, lockout>>

\* The PUT of the current part to the presigned URL: the store takes the
\* part when the upload is in progress and answers with its ETag.
\*   "ok"      stored, ETag header readable
\*   "noetag"  stored, ETag header not exposed to the browser
\*   "fail"    the PUT fails
PutPart(outcome) ==
    LET id == client.upload_id
        n == client.partNumber
        part == Part(n, EtagOrder[n])
        stored == outcome # "fail" /\ InProgress(uploads, id)
        note(status) == Append(client.sent, <<"PUT", id, status>>)
    IN  /\ client.pc = "put"
        /\ last = Idle
        /\ uploads' = IF stored
                      THEN [uploads EXCEPT ![id].state = "uploading",
                                           ![id].parts = @ \cup {part}]
                      ELSE uploads
        /\ client' =
            IF ~stored
            THEN [client EXCEPT !.pc = "abort", !.err = "put", !.sent = note(400)]
            ELSE IF outcome = "noetag"
            THEN [client EXCEPT !.pc = "abort", !.err = "etag", !.sent = note(200)]
            ELSE [client EXCEPT !.completedParts = Append(@, part),
                                !.partNumber = n + 1,
                                !.pc = IF n = client.partCount THEN "complete" ELSE "presign",
                                !.sent = note(200)]
        /\ UNCHANGED <<db, last, grant, objects, moveLog, inflight, lockout>>

\* Requests of a second principal for an upload id.
OtherComplete(uploadID) ==
    MultipartComplete(Root, MoveConfig.bucket_id, UploadKey, uploadID,
                      <<Part(1, EtagOrder[1])>>, "")

OtherAbort(uploadID) ==
    MultipartAbort(Root, MoveConfig.bucket_id, UploadKey, uploadID, "")

NextUpload ==
    \/ \E f \in {"", "SetBucketCors", "NewMultipartUpload"} : UploadInitiate(f)
    \/ \E f \in {"", "Presign"} : UploadPresign(f)
    \/ \E outcome \in {"ok", "noetag", "fail"} : PutPart(outcome)
    \/ \E f \in {"", "CompleteMultipartUpload"} : UploadComplete(f)
    \/ \E f \in {"", "AbortMultipartUpload"} : UploadAbort(f)
    \/ \E id \in UploadIds : OtherComplete(id)
    \/ \E id \in UploadIds : OtherAbort(id)
    \/ Receive

SpecUpload == InitUpload /\ [][NextUpload]_vars

(***************************************************************************)
(* Two moves on one bucket, served side by side.  A handler is at one      *)
(* store call at a time, and between two of its calls the other handler    *)
(* may issue calls of its own: every store call is a step.  The listing of *)
(* a prefix move reaches the handler page by page: the client library      *)
(* asks the store for the next page when the handler has taken the last    *)
(* key of the page before, and the store answers from the bucket as it is  *)
(* then.  The bucket is filled before the requests arrive.                 *)
(***************************************************************************)
PageSize == 1       \* keys in one page of a listing

\* <<from_key, to_key, from_prefix, to_prefix, overwrite>>
RaceRequests ==
    {<<"a/a", "b/a", "", "", FALSE>>, <<"a/a", "b/a", "", "", TRUE>>,
     <<"b/a", "a/a", "", "", TRUE>>,
     <<"", "", "a/", "a/b/", TRUE>>, <<"", "", "a", "b/", FALSE>>}

\* One page of mio.ListObjects: the first PageSize keys under the prefix
\* after the marker, and whether the store holds more.
listPage(store, prefix, marker) ==
    LET rest == SelectSeq([i \in 1..Len(ObjectKeyOrder) |-> i],
                          LAMBDA i : /\ i > marker
                                     /\ ObjectKeyOrder[i] \in DOMAIN store.objects
                                     /\ HasPrefix(ObjectKeyOrder[i], prefix))
        n == IF Len(rest) < PageSize THEN Len(rest) ELSE PageSize
    IN  [keys |-> [j \in 1..n |-> ObjectKeyOrder[rest[j]]],
         marker |-> IF n = 0 THEN marker ELSE rest[n],
         more |-> Len(rest) > n]

\* The handler wrote its response.
responded(m, status, body) == [m EXCEPT !.pc = "done", !.status = status, !.body = body]

\* for obj := range ch: the next object of the listing, the next page when
\* the page is used up, the response when the listing ended.
RECURSIVE nextListed(_)
nextListed(m) ==
    LET v == validatePrefixMove(m.req)
        fromKey == Head(m.listed)
        rel == TrimPrefix(fromKey, v.fromPrefix)
    IN  IF m.listed = <<>>
        THEN IF m.more THEN [m EXCEPT !.pc = "list"]
             ELSE responded(m, 200, <<"moved", m.moved>>)
        ELSE IF rel = "" THEN nextListed([m EXCEPT !.listed = Tail(@)])
        ELSE [m EXCEPT !.listed = Tail(@), !.fromKey = fromKey,
                       !.newKey = v.toPrefix \o rel,
                       !.pc = IF m.req.overwrite THEN "copy" ELSE "stat"]

\* Move up to its first store call.
MoveBegin(s, req) ==
    LET auth == authorizeAndExtract(db, Alice, req.bucket, ConsumedBody)
        v == validatePrefixMove(req)
        m == [NoFlight EXCEPT !.op = "Move", !.req = req, !.cfg = auth.cfg]
        begun ==
            IF ~auth.ok THEN responded(m, auth.status, <<>>)
            ELSE IF isSingleObjectMove(req)
            THEN IF req.from_key = "" \/ req.to_key = "" \/ req.from_key = req.to_key
                 THEN responded(m, 400, <<>>)
                 ELSE [m EXCEPT !.fromKey = req.from_key, !.newKey = req.to_key,
                                !.pc = IF req.overwrite THEN "copy" ELSE "stat"]
            ELSE IF v.status # 0 THEN responded(m, v.status, <<>>)
            ELSE [m EXCEPT !.pc = "list"]
    IN  /\ inflight[s].pc = "free"
        /\ inflight' = [inflight EXCEPT ![s] = begun]
        /\ UNCHANGED <<db, last, grant, objects, moveLog, uploads, client, lockout>>

\* The listing goroutine fetches a page.
MoveList(s) ==
    LET m == inflight[s]
        fromPrefix == normalizePrefix(m.req.from_prefix)
        page == listPage(Store(objects[m.cfg.bucket_name], <<>>), fromPrefix, m.marker)
    IN  /\ m.pc = "list"
        /\ inflight' = [inflight EXCEPT ![s] =
                           nextListed([m EXCEPT !.listed = page.keys,
                                                !.marker = page.marker,
                                                !.more = page.more,
                                                !.calls = Append(@, <<"ListObjects", fromPrefix>>)])]
        /\ UNCHANGED <<db, last, grant, objects, moveLog, uploads, client, lockout>>

\* ensureDestinationAbsent with overwrite=false: the stat of the destination.
MoveStat(s) ==
    LET m == inflight[s]
        absent == ensureDestinationAbsent(Store(objects[m.cfg.bucket_name], <<>>),
                                          m.newKey, m.req.overwrite)
        err == IF isSingleObjectMove(m.req) THEN absent
               ELSE prefixMoveConflictOrErr(absent, m.newKey)
        called == [m EXCEPT !.calls = @ \o absent.calls]
    IN  /\ m.pc = "stat"
        /\ inflight' = [inflight EXCEPT ![s] =
                           IF absent.status # 0 THEN responded(called, err.status, err.body)
                           ELSE [called EXCEPT !.pc = "copy"]]
        /\ UNCHANGED <<db, last, grant, objects, moveLog, uploads, client, lockout>>

\* copyAndDelete: the copy.
MoveCopy(s) ==
    LET m == inflight[s]
        b == m.cfg.bucket_name
        copied == mioCopyObject(Store(objects[b], <<>>), m.fromKey, m.newKey)
        called == [m EXCEPT !.calls = Append(@, <<"CopyObject", m.fromKey, m.newKey>>)]
        err == httpError(400, "CopyObject failed", <<>>, called.calls)
        body == IF isSingleObjectMove(m.req) THEN <<>>
                ELSE withMoveKeys(err, m.fromKey, m.newKey).body
    IN  /\ m.pc = "copy"
        /\ objects' = [objects EXCEPT ![b] = copied.store.objects]
        /\ inflight' = [inflight EXCEPT ![s] =
                           IF copied.err THEN responded(called, 400, body)
                           ELSE [called EXCEPT !.pc = "remove",
                                               !.replaced = @ \/ m.newKey \in DOMAIN objects[b],
                                               !.carried = @ \cup {objects[b][m.fromKey]}]]
        /\ UNCHANGED <<db, last, grant, moveLog, uploads, client, lockout>>

\* copyAndDelete: the delete of the source, then the next object or the response.
MoveRemove(s) ==
    LET m == inflight[s]
        b == m.cfg.bucket_name
        removed == mioRemoveObject(Store(objects[b], <<>>), m.fromKey)
        called == [m EXCEPT !.calls = Append(@, <<"RemoveObject", m.fromKey>>)]
        err == httpError(400, "RemoveObject failed", <<>>, called.calls)
        body == IF isSingleObjectMove(m.req) THEN <<>>
                ELSE withMoveKeys(err, m.fromKey, m.newKey).body
        after == [called EXCEPT !.moved = @ + 1]
    IN  /\ m.pc = "remove"
        /\ objects' = [objects EXCEPT ![b] = removed.store.objects]
        /\ inflight' = [inflight EXCEPT ![s] =
                           IF removed.err THEN responded(called, 400, body)
                           ELSE IF isSingleObjectMove(m.req)
                           THEN responded(after, 200, <<"moved", 1>>)
                           ELSE nextListed(after)]
        /\ UNCHANGED <<db, last, grant, moveLog, uploads, client, lockout>>

\* An object the bucket holds when the requests arrive.
Seed(key, content) ==
    /\ \A s \in Slots : inflight[s].pc = "free"
    /\ StorePut(MoveConfig.bucket_name, key, content)

NextRace ==
    \/ \E k \in {"a/a", "a/x", "b/a"}, c \in Contents : Seed(k, c)
    \/ \E s \in Slots, r \in RaceRequests :
          MoveBegin(s, ObjectMoveRequest("dev", r[1], r[2], r[3], r[4], r[5]))
    \/ \E s \in Slots : MoveList(s)
    \/ \E s \in Slots : MoveStat(s)
    \/ \E s \in Slots : MoveCopy(s)
    \/ \E s \in Slots : MoveRemove(s)

SpecRace == InitMove /\ [][NextRace]_vars

(***************************************************************************)
(* Two add_connection requests served side by side.  Between the handler's *)
(* json.Marshal and its PutKV the other handler may run; PutKV is one      *)
(* badger transaction that sets one key and reads none.                    *)
(***************************************************************************)
\* AddConnection up to json.Marshal.
AddBegin(s, userInfo, bucketConfig) ==
    LET m == [NoFlight EXCEPT !.op = "AddConnection", !.cfg = bucketConfig]
    IN  /\ inflight[s].pc = "free"
        /\ inflight' = [inflight EXCEPT ![s] =
                           IF userInfo.email = "" THEN responded(m, 400, <<>>)
                           ELSE [m EXCEPT !.res = Marshal(bucketConfig), !.pc = "put"]]
        /\ UNCHANGED <<db, last, grant, objects, moveLog, uploads, client, lockout>>

\* AddConnection from PutKV on.
AddCommit(s) ==
    LET m == inflight[s]
        put == PutKV(db, BucketIdPrefix \o m.cfg.bucket_name, m.res)
    IN  /\ m.pc = "put"
        /\ db' = put.db
        /\ inflight' = [inflight EXCEPT ![s] =
                           IF put.err THEN responded(m, 400, <<>>)
                           ELSE responded(m, 200, <<"message", "Connection Added">>)]
        /\ UNCHANGED <<last, grant, objects, moveLog, uploads, client, lockout>>

NextAdd ==
    \/ \E s \in Slots, u \in {Alice, Root, Anonymous}, cfg \in GatewayConfigs :
          AddBegin(s, u, cfg)
    \/ \E s \in Slots : AddCommit(s)

SpecAdd == Init /\ [][NextAdd]_vars

(***************************************************************************)
(* Local users (pkg/auth, Store and LocalUsersAPI).  A user record lives   *)
(* in the badger store under "local_users/" + the user name; CreateUser    *)
(* normalizes the name, so the record of a user is under its lower-case,   *)
(* trimmed name.  Time stamps are left out of the record.                  *)
(***************************************************************************)
\* strings.ToLower(strings.TrimSpace(u)), on the letters user names here have
normalizeUsername(u) ==
    LET small(c) == CASE c = "A" -> "a" [] c = "B" -> "b" [] c = "C" -> "c"
                      [] c = "E" -> "e" [] c = "I" -> "i" [] c = "L" -> "l"
                      [] c = "O" -> "o" [] OTHER -> c
        RECURSIVE lower(_)
        lower(str) == IF str = "" THEN ""
                      ELSE small(SubSeq(str, 1, 1)) \o lower(SubSeq(str, 2, Len(str)))
    IN  lower(TrimSpace(u))

userKey(username) == "local_users/" \o username

\* bcrypt.GenerateFromPassword; CompareHashAndPassword(h, p) succeeds when h
\* is the hash of p.
bcryptHash(password) == "$2a$" \o password

\* json.Marshal of a UserRecord
marshalUserRecord(rec) ==
    <<"username", rec.username, "password_hash", rec.password_hash,
      "disabled", rec.disabled, "administrator", rec.administrator>>

\* Store.GetUser: (rec, err); err "" is nil
StoreGetUser(d, username) ==
    LET name == normalizeUsername(username)
        got == PullKV(d, userKey(name))
        b == got.val
        none == [username |-> "", password_hash |-> "", disabled |-> FALSE,
                 administrator |-> FALSE]
    IN  IF name = "" THEN [err |-> "username is required", rec |-> none]
        ELSE IF got.err THEN [err |-> "user not found", rec |-> none]
        ELSE [err |-> "",
              rec |-> [username |-> b[2], password_hash |-> b[4], disabled |-> b[6],
                       administrator |-> b[8]]]

\* Store.ValidateUser
StoreValidateUser(d, username, password) ==
    LET name == normalizeUsername(username)
        got == StoreGetUser(d, name)
        invalid == [err |-> "invalid username or password", rec |-> got.rec]
    IN  IF name = "" \/ password = "" THEN invalid
        ELSE IF got.err = "user not found" THEN invalid
        ELSE IF got.err # "" THEN got
        ELSE IF got.rec.disabled THEN invalid
        ELSE IF got.rec.password_hash # bcryptHash(password) THEN invalid
        ELSE got

\* Store.DisableUser: the record is looked up under the normalized name and
\* written under the name as it was given.
StoreDisableUser(d, username, disabled) ==
    LET got == StoreGetUser(d, username)
        put == PutKV(d, userKey(username),
                     marshalUserRecord([got.rec EXCEPT !.disabled = disabled]))
    IN  IF got.err # "" THEN [err |-> got.err, db |-> d]
        ELSE IF put.err THEN [err |-> "Key cannot be empty", db |-> d]
        ELSE [err |-> "", db |-> put.db]

\* LocalUsersAPI.DisableUser
DisableUser(userInfo, username, disabled) ==
    LET done == StoreDisableUser(db, username, disabled)
        answer(status, msg) ==
            [Served("DisableUser", userInfo, "", NoConfig, "none", status, msg, <<>>, <<>>)
                EXCEPT !.input = <<username, disabled>>]
        served ==
            IF ~userInfo.administrator THEN answer(403, "admin required")
            ELSE IF TrimSpace(username) = "" THEN answer(400, "username is required")
            ELSE IF done.err = "user not found" THEN answer(404, done.err)
            ELSE IF done.err # "" THEN answer(400, done.err)
            ELSE answer(200, "user updated")
        name == normalizeUsername(username)
    IN  /\ last = Idle
        /\ last' = served
        /\ db' = IF served.status = 200 THEN done.db ELSE db
        /\ lockout' = IF served.status # 200 THEN lockout
                      ELSE IF disabled THEN lockout \cup {name}
                      ELSE lockout \ {name}
        /\ UNCHANGED <<grant, objects, moveLog, uploads, client, inflight>>

\* LocalUsersAPI.ValidateUser
ValidateUser(username, password) ==
    LET checked == StoreValidateUser(db, username, password)
        answer(status, msg, body) ==
            [Served("ValidateUser", Anonymous, "", NoConfig, "none", status, msg, body, <<>>)
                EXCEPT !.input = <<username, password>>]
    IN  /\ last = Idle
        /\ last' = IF checked.err # "" THEN answer(401, checked.err, <<>>)
                   ELSE answer(200, "", <<"authenticated", TRUE, "user", checked.rec.username>>)
        /\ UNCHANGED <<db, grant, objects, moveLog, uploads, client, inflight, lockout>>

\* The store holds the user alice, created with the password "pw1".
InitUsers ==
    /\ db = [k \in {"config", userKey("alice")} |->
                IF k = "config" THEN <<"config.yaml">>
                ELSE marshalUserRecord([username |-> "alice",
                                        password_hash |-> bcryptHash("pw1"),
                                        disabled |-> FALSE, administrator |-> FALSE])]
    /\ last = Idle
    /\ grant = NoGrant
    /\ objects = [b \in Ids |-> EmptyBucket]
    /\ moveLog = NoMoveLog
    /\ uploads = NoUploads
    /\ client = NoClient
    /\ inflight = NoInflight
    /\ lockout = {}

NextUsers ==
    \/ \E u \in {Root, Alice}, name \in {"alice", "Alice", " alice ", "bob", " "},
          disabled \in BOOLEAN :
          DisableUser(u, name, disabled)
    \/ \E name \in {"alice", "Alice", " alice ", "bob", ""}, password \in {"pw1", "bad", ""} :
          ValidateUser(name, password)
    \/ Respond

SpecUsers == InitUsers /\ [][NextUsers]_vars

(***************************************************************************)
(* Prefix normalization alone: normalizePrefix applied to every prefix     *)
(* within the bound, to the prefix followed by "/", and to its own result. *)
(***************************************************************************)
MaxPrefixLen == 3

SeqsUpTo(S, n) == UNION {[1..k -> S] : k \in 0..n}

RECURSIVE Join(_)
Join(parts) == IF parts = <<>> THEN "" ELSE Head(parts) \o Join(Tail(parts))

Prefixes == {Join(q) : q \in SeqsUpTo({"a", "b", "/"}, MaxPrefixLen)}

InitNormalize ==
    /\ db = [k \in {"config"} |-> <<"config.yaml">>]
    /\ grant = NoGrant
    /\ objects = [b \in Ids |-> EmptyBucket]
    /\ moveLog = NoMoveLog
    /\ uploads = NoUploads
    /\ client = NoClient
    /\ inflight = NoInflight
    /\ lockout = {}
    /\ last \in {[Served("normalizePrefix", Anonymous, "", NoConfig, "none", 0, "",
                          <<>>, <<>>) EXCEPT !.req.from_prefix = p] : p \in Prefixes}

\* body collects normalizePrefix(p), normalizePrefix(p + "/") and
\* normalizePrefix(normalizePrefix(p)), one call a step.
Normalize ==
    /\ last.op = "normalizePrefix"
    /\ Len(last.body) < 3
    /\ last' = [last EXCEPT !.body =
                    Append(@, CASE Len(@) = 0 -> normalizePrefix(last.req.from_prefix)
                                [] Len(@) = 1 -> normalizePrefix(last.req.from_prefix \o "/")
                                [] OTHER -> normalizePrefix(@[1]))]
    /\ UNCHANGED <<db, grant, objects, moveLog, uploads, client, inflight, lockout>>

NextNormalize == Normalize

SpecNormalize == InitNormalize /\ [][NextNormalize]_vars

(***************************************************************************)
(* The authorization decision alone: isAuthorizedForBucket applied to one  *)
(* principal and one connection record drawn from every combination of     *)
(* emails, group lists and allowlists within the bounds.                   *)
(***************************************************************************)
MaxListLen == 2

AuthorizeUsers ==
    {User(e, gs, ad) : e \in {"", "a@x.com", "b@x.com"},
                       gs \in SeqsUpTo({"team", AdminGroup}, MaxListLen),
                       ad \in BOOLEAN}

AuthorizeConfigs ==
    {BucketConfig("dev", "dev", "s1", us, gs) :
        us \in SeqsUpTo({"a@x.com", "b@x.com"}, MaxListLen),
        gs \in SeqsUpTo({"team", "ops"}, MaxGroups)}

InitAuthorize ==
    /\ db = [k \in {"config"} |-> <<"config.yaml">>]
    /\ grant = NoGrant
    /\ objects = [b \in Ids |-> EmptyBucket]
    /\ moveLog = NoMoveLog
    /\ uploads = NoUploads
    /\ client = NoClient
    /\ inflight = NoInflight
    /\ lockout = {}
    /\ last \in {Served("authorize", u, cfg.bucket_id, cfg, "none", 0, "", <<>>, <<>>) :
                    u \in AuthorizeUsers, cfg \in AuthorizeConfigs}

Authorize ==
    /\ last.op = "authorize"
    /\ last.authz = "none"
    /\ last' = [last EXCEPT !.authz = IF isAuthorizedForBucket(last.user, last.cfg)
                                      THEN "allow" ELSE "deny"]
    /\ UNCHANGED <<db, grant, objects, moveLog, uploads, client, inflight, lockout>>

NextAuthorize == Authorize

SpecAuthorize == InitAuthorize /\ [][NextAuthorize]_vars

(***************************************************************************)
(* The vocabulary of the properties.                                       *)
(***************************************************************************)
\* The authorization rule: administrator, or email in authorized_users, or
\* the admin group among the groups, or a group in authorized_groups.
Permits(principal, conn) ==
    \/ principal.administrator
    \/ principal.email \in Range(conn.authorized_users)
    \/ AdminGroup \in Range(principal.groups)
    \/ Range(principal.groups) \cap Range(conn.authorized_groups) # {}

\* The credential resolved to a principal.
Resolved(principal) == TrimSpace(principal.email) # ""

ConnectionKeys(d) == {k \in DOMAIN d : HasPrefix(k, BucketIdPrefix)}

\* The connection record stored under key k.
Record(d, k) == unmarshalBucketConfig(d[k]).cfg

StoredConnections(d) == {Record(d, k) : k \in ConnectionKeys(d)}

\* C1: the authorization decision is true exactly when the principal is an
\* administrator, or its email is in the connection's authorized_users, or
\* the admin group is one of its groups, or one of its groups is in the
\* connection's authorized_groups.
C1_AuthorizeIffRule ==
    last.authz # "none" =>
        ((last.authz = "allow") <=> Permits(last.user, last.cfg))

\* A non-administrator outside the allowlist and the admin group whom only
\* the second of two groups lets in.
C1_Witness ==
    /\ last.op = "authorize"
    /\ last.authz = "allow"
    /\ ~last.user.administrator
    /\ last.user.email \notin Range(last.cfg.authorized_users)
    /\ AdminGroup \notin Range(last.user.groups)
    /\ Len(last.user.groups) = 2

\* C2: an object, move or multipart handler issues an object-store call
\* only when the credential resolved to a principal, the named connection
\* is in the registry and the rule permits the principal on it; a request
\* failing any of the three issues none.
C2_NoStoreCallBeforeAuthorization ==
    (last.op \in GatewayOps \cup {"Upload"} /\ last.calls # <<>>) =>
        /\ Resolved(last.user)
        /\ BucketIdPrefix \o last.bucket \in ConnectionKeys(db)
        /\ Permits(last.user, Record(db, BucketIdPrefix \o last.bucket))

\* A move that copied and removed an object for a principal admitted by a group.
C2_Witness ==
    /\ last.op = "Move"
    /\ Len(last.calls) >= 2
    /\ ~last.user.administrator
    /\ AdminGroup \notin Range(last.user.groups)
    /\ last.user.email \notin Range(last.cfg.authorized_users)

\* C3: after add_connection succeeds for a record with bucket_id B, the
\* lookup by bucket id B returns exactly the record written, whatever the
\* record's bucket_id and bucket_name are.
C3_UpsertThenGet ==
    (last.op = "AddConnection" /\ last.status = 200) =>
        LET got == getBucketConfigOrRespond(db, last.cfg.bucket_id)
        IN  got.ok /\ got.cfg = last.cfg

\* C4: the registry holds at most one record per bucket_id, each under the
\* key "bucket-" followed by its own bucket_id.
C4_OneRecordPerBucketId ==
    /\ \A k \in ConnectionKeys(db) : k = BucketIdPrefix \o Record(db, k).bucket_id
    /\ \A k1, k2 \in ConnectionKeys(db) :
          Record(db, k1).bucket_id = Record(db, k2).bucket_id => k1 = k2

C6_UpsertNeedsAuthorization ==
    [][\A k \in ConnectionKeys(db) :
          (last'.op = "AddConnection" /\ ~Permits(last'.user, Record(db, k)))
              => (k \in DOMAIN db' /\ db'[k] = db[k])]_vars

\* C7: delete_connection by a principal the rule does not permit on the
\* named connection leaves the registry unchanged, and the lookup still
\* returns the same record.
C7_UnauthorizedDeleteKeepsRegistry ==
    [][(/\ last'.op = "DeleteConnection"
        /\ BucketIdPrefix \o last'.bucket \in ConnectionKeys(db)
        /\ ~Permits(last'.user, Record(db, BucketIdPrefix \o last'.bucket)))
          => /\ db' = db
             /\ getBucketConfigOrRespond(db', last'.bucket)
                    = getBucketConfigOrRespond(db, last'.bucket)]_vars

\* An unauthorized delete_connection on a stored connection has been answered.
C7_Witness ==
    /\ last.op = "DeleteConnection"
    /\ last.authz = "deny"
    /\ BucketIdPrefix \o last.bucket \in ConnectionKeys(db)
    /\ last.cfg = Record(db, BucketIdPrefix \o last.bucket)

\* C8 as stated: delete_connection by a principal lacking permission on the
\* resolved connection ends in a Forbidden/Unauthorized error, never in success.
C8_UnauthorizedDeleteIsError ==
    (/\ last.op = "DeleteConnection"
     /\ Resolved(last.user)
     /\ BucketIdPrefix \o last.bucket \in ConnectionKeys(db)
     /\ ~Permits(last.user, Record(db, BucketIdPrefix \o last.bucket)))
        => last.status >= 400

\* C8: delete_connection by a principal lacking permission on the resolved
\* connection ends in the 200 "Bucket connection deleted successfully"
\* response, the one an authorized delete gets.
C8_UnauthorizedDeleteSilentSuccess ==
    (/\ last.op = "DeleteConnection"
     /\ Resolved(last.user)
     /\ BucketIdPrefix \o last.bucket \in ConnectionKeys(db)
     /\ ~Permits(last.user, Record(db, BucketIdPrefix \o last.bucket)))
        => /\ last.status = 200
           /\ last.msg = "Bucket connection deleted successfully"

\* A principal with a group, not permitted on the connection, got the 200.
C8_Witness ==
    /\ last.op = "DeleteConnection"
    /\ last.status = 200
    /\ last.user.groups # <<>>
    /\ BucketIdPrefix \o last.bucket \in ConnectionKeys(db)
    /\ ~Permits(last.user, Record(db, BucketIdPrefix \o last.bucket))

\* C9: for every stored connection with bucket_id B, delete_connection
\* naming B by a principal the rule permits succeeds, and afterwards the
\* registry holds no record with bucket_id B.
C9_AuthorizedDeleteRemoves ==
    [][(/\ last'.op = "DeleteConnection"
        /\ Resolved(last'.user)
        /\ \E c \in StoredConnections(db) :
              c.bucket_id = last'.bucket /\ Permits(last'.user, c))
          => /\ last'.status = 200
             /\ \A c \in StoredConnections(db') : c.bucket_id # last'.bucket
             /\ ~getBucketConfigOrRespond(db', last'.bucket).ok]_vars

\* C10: once a principal was denied on a connection and an add_connection
\* then stored that connection's record with the principal's email added to
\* authorized_users, the principal's next operation naming that connection
\* is not refused: neither "Unauthorized" nor "Key not found".
C10_AuthorizationFollowsStoredRecord ==
    [][(/\ grant.stage = "granted"
        /\ last'.op \in GatewayOps
        /\ last'.user = grant.user
        /\ last'.bucket = grant.bucket)
          => /\ last'.authz # "deny"
             /\ last'.msg \notin {"Unauthorized", "Key not found"}]_vars

\* The principal denied and then added was served by the object store.
C10_Witness ==
    /\ grant.stage = "served"
    /\ last.user = grant.user
    /\ last.authz = "allow"
    /\ last.calls # <<>>
    /\ ~last.user.administrator

(***************************************************************************)
(* The vocabulary of the move properties.                                  *)
(***************************************************************************)
\* served is a move that was bound and authorized: the handler got to the
\* mode decision.
Admitted(served) == served.op = "Move" /\ served.authz = "allow"

\* The request names a complete, usable key pair / prefix pair.
KeyPair(req) == req.from_key # "" /\ req.to_key # "" /\ req.from_key # req.to_key

PrefixPair(req) ==
    /\ req.from_key = "" /\ req.to_key = ""
    /\ req.from_prefix # "" /\ req.to_prefix # ""
    /\ normalizePrefix(req.from_prefix) # normalizePrefix(req.to_prefix)

\* The keys of a bucket under a prefix.
Under(objs, prefix) == {k \in DOMAIN objs : HasPrefix(k, prefix)}

\* Positions of the copy and delete calls among a request's store calls.
Mutations(calls) == {i \in DOMAIN calls : calls[i][1] \in {"CopyObject", "RemoveObject"}}

\* The bucket after every object under fromPrefix has moved under toPrefix.
Renamed(objs, fromPrefix, toPrefix) ==
    LET target(k) == toPrefix \o TrimPrefix(k, fromPrefix)
        kept == DOMAIN objs \ Under(objs, fromPrefix)
        made == {target(k) : k \in Under(objs, fromPrefix)}
    IN  [j \in kept \cup made |->
            IF j \in made
            THEN objs[CHOOSE k \in Under(objs, fromPrefix) : target(k) = j]
            ELSE objs[j]]

\* C11: a single-object move with overwrite=false whose destination key
\* holds an object returns 409 Conflict and issues neither a copy nor a
\* delete, so the bucket is unchanged.
C11_ConflictLeavesBoth ==
    [][(/\ Admitted(last')
        /\ KeyPair(last'.req)
        /\ ~last'.req.overwrite
        /\ last'.req.to_key \in DOMAIN objects[last'.cfg.bucket_name])
          => /\ last'.status = 409
             /\ Mutations(last'.calls) = {}
             /\ objects' = objects]_vars

\* C12: a single-object move with overwrite=true whose copy and delete the
\* store both carries out leaves at to_key the content from_key held, no
\* object at from_key, every other key as it was, and returns moved = 1.
C12_SingleMoveOverwrite ==
    [][(/\ Admitted(last')
        /\ KeyPair(last'.req)
        /\ last'.req.overwrite
        /\ last'.req.from_key \in DOMAIN objects[last'.cfg.bucket_name]
        /\ last'.fault \notin {<<"CopyObject", last'.req.from_key>>,
                               <<"RemoveObject", last'.req.from_key>>})
          => LET b == last'.cfg.bucket_name
                 req == last'.req
             IN  /\ last'.status = 200
                 /\ last'.body = <<"moved", 1>>
                 /\ DOMAIN objects'[b] = (DOMAIN objects[b] \ {req.from_key}) \cup {req.to_key}
                 /\ objects'[b][req.to_key] = objects[b][req.from_key]
                 /\ \A k \in DOMAIN objects'[b] \ {req.to_key} : objects'[b][k] = objects[b][k]]_vars

\* An overwriting single-object move has replaced the object at to_key.
C12_Witness ==
    /\ Admitted(last)
    /\ last.status = 200
    /\ last.req.overwrite
    /\ last.calls = <<<<"CopyObject", "a/x", "b/x">>, <<"RemoveObject", "a/x">>>>
    /\ DOMAIN objects[last.cfg.bucket_name] = {"b/x", "a/y"}

\* C13: in every move the calls for one object come in the order stat (only
\* when overwrite=false), copy, delete; a delete directly follows the copy
\* of the same key and that copy did not fail; after a failing copy nothing
\* more is called and the source object is as it was.
C13_StatCopyDeleteOrder ==
    [][Admitted(last') =>
        LET calls == last'.calls
            b == last'.cfg.bucket_name
        IN  /\ \A i \in DOMAIN calls :
                  /\ calls[i][1] = "RemoveObject" =>
                        /\ i > 1
                        /\ calls[i - 1][1] = "CopyObject"
                        /\ calls[i - 1][2] = calls[i][2]
                        /\ last'.fault # <<"CopyObject", calls[i][2]>>
                  /\ calls[i][1] = "CopyObject" =>
                        IF last'.req.overwrite
                        THEN i = 1 \/ calls[i - 1][1] \in {"RemoveObject", "ListObjects"}
                        ELSE i > 1 /\ calls[i - 1] = <<"StatObject", calls[i][3]>>
                  /\ calls[i][1] = "StatObject" =>
                        /\ ~last'.req.overwrite
                        /\ i = Len(calls) \/ calls[i + 1][1] = "CopyObject"
                  /\ (calls[i][1] = "CopyObject" /\ last'.fault = <<"CopyObject", calls[i][2]>>) =>
                        /\ i = Len(calls)
                        /\ last'.status # 200
                        /\ calls[i][2] \in DOMAIN objects[b] =>
                              /\ calls[i][2] \in DOMAIN objects'[b]
                              /\ objects'[b][calls[i][2]] = objects[b][calls[i][2]]]_vars

\* A prefix move moved one object and stopped on the failing copy of the next.
C13_Witness ==
    /\ Admitted(last)
    /\ last.fault = <<"CopyObject", "a/y">>
    /\ last.calls = <<<<"ListObjects", "a/">>,
                      <<"StatObject", "b/x">>, <<"CopyObject", "a/x", "b/x">>,
                      <<"RemoveObject", "a/x">>,
                      <<"StatObject", "b/y">>, <<"CopyObject", "a/y", "b/y">>>>
    /\ "a/y" \in DOMAIN objects[last.cfg.bucket_name]

\* C14: when the delete of the source fails after the copy in a
\* single-object move, the object is at both keys and the request ends in
\* an error whose response names the source key and the destination key.
C14_DeleteFailureNamesBothKeys ==
    [][(/\ Admitted(last')
        /\ KeyPair(last'.req)
        /\ last'.req.from_key \in DOMAIN objects[last'.cfg.bucket_name]
        /\ last'.fault = <<"RemoveObject", last'.req.from_key>>
        /\ "CopyObject" \in {last'.calls[i][1] : i \in DOMAIN last'.calls})
          => LET b == last'.cfg.bucket_name
                 req == last'.req
             IN  /\ last'.status >= 400
                 /\ {req.from_key, req.to_key} \subseteq DOMAIN objects'[b]
                 /\ objects'[b][req.to_key] = objects[b][req.from_key]
                 /\ objects'[b][req.from_key] = objects[b][req.from_key]
                 /\ \E i, j \in DOMAIN last'.body :
                        last'.body[i] = req.from_key /\ last'.body[j] = req.to_key]_vars

\* C15: a move issues store calls only for a request with a complete key
\* pair of different keys or, with no key set, a complete prefix pair of
\* different normalized prefixes; every other request is answered 400
\* before any store call.
C15_OneModeDistinctEnds ==
    Admitted(last) =>
        /\ last.calls # <<>> => (KeyPair(last.req) \/ PrefixPair(last.req))
        /\ ~(KeyPair(last.req) /\ PrefixPair(last.req))
        /\ ~(KeyPair(last.req) \/ PrefixPair(last.req)) =>
              (last.status = 400 /\ last.calls = <<>> /\ last.body = <<>>)

\* A request with one key and a complete prefix pair was turned down.
C15_Witness ==
    /\ Admitted(last)
    /\ last.req.from_key # ""
    /\ last.req.to_key = ""
    /\ last.req.from_prefix # ""
    /\ last.req.to_prefix # ""
    /\ last.status = 400

\* C16 as stated: normalization maps every non-empty prefix to a string
\* ending in exactly one "/", maps p and p + "/" to the same value, and is
\* idempotent.
C16_ExactlyOneSeparator ==
    (last.op = "normalizePrefix" /\ last.req.from_prefix # "") =>
        /\ Len(last.body) >= 1 =>
              (HasSuffix(last.body[1], "/") /\ ~HasSuffix(last.body[1], "//"))
        /\ Len(last.body) >= 2 => last.body[2] = last.body[1]
        /\ Len(last.body) >= 3 => last.body[3] = last.body[1]

\* C16: normalization leaves a non-empty prefix that ends in "/" unchanged
\* and appends one "/" to any other, so the result always ends in "/"; it
\* maps p and p + "/" to the same value for every p not ending in "/", and
\* is idempotent.
C16_EnsuresSeparator ==
    (last.op = "normalizePrefix" /\ last.req.from_prefix # "") =>
        LET p == last.req.from_prefix
        IN  /\ Len(last.body) >= 1 =>
                  /\ HasSuffix(last.body[1], "/")
                  /\ last.body[1] = IF HasSuffix(p, "/") THEN p ELSE p \o "/"
            /\ (Len(last.body) >= 2 /\ ~HasSuffix(p, "/")) => last.body[2] = last.body[1]
            /\ Len(last.body) >= 3 => last.body[3] = last.body[1]

\* "a" and "a/" went to the same value, and normalizing that again changed nothing.
C16_Witness ==
    /\ last.op = "normalizePrefix"
    /\ last.req.from_prefix = "a"
    /\ last.body = <<"a/", "a/", "a/">>

\* C17 as stated: a prefix move with an empty from_prefix or to_prefix (the
\* other one set) is accepted, the empty side standing for the bucket root.
C17_EmptyPrefixIsRoot ==
    (/\ Admitted(last)
     /\ last.req.from_key = "" /\ last.req.to_key = ""
     /\ (last.req.from_prefix = "") # (last.req.to_prefix = ""))
        => (last.status # 400 /\ last.calls # <<>>)

\* C17: a prefix move with an empty from_prefix or to_prefix is answered 400
\* "either (from_key,to_key) or (from_prefix,to_prefix) must be provided"
\* before any store call: the empty prefix never stands for the bucket root.
C17_EmptyPrefixRejected ==
    (/\ Admitted(last)
     /\ last.req.from_key = "" /\ last.req.to_key = ""
     /\ (last.req.from_prefix = "" \/ last.req.to_prefix = ""))
        => /\ last.status = 400
           /\ last.msg = "either (from_key,to_key) or (from_prefix,to_prefix) must be provided"
           /\ last.calls = <<>>

\* A move from the empty prefix into "b" was turned down over a bucket that holds objects.
C17_Witness ==
    /\ Admitted(last)
    /\ last.req.from_prefix = ""
    /\ last.req.to_prefix = "b"
    /\ last.status = 400
    /\ DOMAIN objects[last.cfg.bucket_name] # {}

\* C18: a prefix move that ends in success leaves, for every key
\* fromPrefix + s the bucket held when it started, an object with the same
\* content at toPrefix + s, leaves no object under fromPrefix, and returns
\* moved = the number of objects that were under fromPrefix.
C18_PrefixMoveMovesAll ==
    [][(/\ Admitted(last')
        /\ PrefixPair(last'.req)
        /\ last'.status = 200)
          => LET b == last'.cfg.bucket_name
                 fromPrefix == normalizePrefix(last'.req.from_prefix)
                 toPrefix == normalizePrefix(last'.req.to_prefix)
                 target(k) == toPrefix \o TrimPrefix(k, fromPrefix)
             IN  /\ \A k \in Under(objects[b], fromPrefix) :
                        /\ target(k) \in DOMAIN objects'[b]
                        /\ objects'[b][target(k)] = objects[b][k]
                 /\ Under(objects'[b], fromPrefix) = {}
                 /\ last'.body = <<"moved", Cardinality(Under(objects[b], fromPrefix))>>]_vars

\* C19: when a prefix move fails on an object, the response carries the
\* number of objects moved before the failure and the key of the failing
\* object.
C19_FailureReportsCountAndKey ==
    (/\ Admitted(last)
     /\ PrefixPair(last.req)
     /\ last.status # 200
     /\ Len(last.calls) >= 2
     /\ (last.fault = <<>> \/ last.fault[1] # "ListObjects")
     /\ last.calls[Len(last.calls)][1] \in {"StatObject", "CopyObject", "RemoveObject"})
        => LET failing == last.calls[Len(last.calls)]
           IN  /\ \E i \in DOMAIN last.body : i % 2 = 1 /\ last.body[i] = "moved"
               /\ \E i \in DOMAIN last.body : i % 2 = 0 /\ last.body[i] \in Range(Tail(failing))

\* C20: the same prefix move sent again after it stopped part-way neither
\* copies nor deletes an object the first run moved, and when it ends in
\* success the bucket is what one fully successful run on the original
\* bucket leaves.
C20_RetryAfterPartialMove ==
    [][(/\ moveLog.stage = "partial"
        /\ Admitted(last')
        /\ last'.req = moveLog.req)
          => LET b == last'.cfg.bucket_name
                 calls == last'.calls
             IN  /\ \A i \in Mutations(calls) : calls[i][2] \notin moveLog.moved
                 /\ last'.status = 200 =>
                        objects'[b] = Renamed(moveLog.before,
                                              normalizePrefix(moveLog.req.from_prefix),
                                              normalizePrefix(moveLog.req.to_prefix))]_vars

(***************************************************************************)
(* The vocabulary of the upload and listing properties.                    *)
(***************************************************************************)
\* The parts list a complete request submitted; the one handed to the store.
Submitted(served) == served.input[3]
HandedOver(served) == served.calls[1][4]

Ascending(parts) ==
    \A i \in 1..(Len(parts) - 1) : parts[i].part_number <= parts[i + 1].part_number

SameEntries(a, b) ==
    /\ Len(a) = Len(b)
    /\ \A e \in Range(a) \cup Range(b) :
          Cardinality({i \in 1..Len(a) : a[i] = e}) = Cardinality({i \in 1..Len(b) : b[i] = e})

\* C24: no failure met while a request is served ends the process: every
\* request a handler took up gets an HTTP response, after which the gateway
\* serves the next one.
C24_FailuresAreRequestScoped ==
    last.op \in GatewayOps => (last.status >= 200 /\ ENABLED Respond)

\* C25: a complete request whose parts list is empty, or holds an entry with
\* a part_number outside 1..10000 or an empty etag, is answered with an
\* error and the store's complete primitive is not called.
C25_CompleteRejectsBadParts ==
    (/\ last.op = "MultipartComplete"
     /\ last.input # <<>>
     /\ \/ Submitted(last) = <<>>
        \/ \E i \in 1..Len(Submitted(last)) :
              \/ Submitted(last)[i].part_number < 1
              \/ Submitted(last)[i].part_number > 10000
              \/ Submitted(last)[i].etag = "")
        => (last.status >= 400 /\ last.calls = <<>>)

\* An authorized complete whose second entry has an empty etag was turned down.
C25_Witness ==
    /\ last.op = "MultipartComplete"
    /\ last.authz = "allow"
    /\ last.input # <<>>
    /\ Submitted(last) = <<Part(1, "e1"), Part(2, "")>>
    /\ last.status = 400
    /\ last.calls = <<>>

\* C26: the parts list a complete request hands to the store's complete
\* primitive is the submitted list in ascending part_number order: the same
\* (part_number, etag) entries, none added, none dropped.
C26_CompleteSortsParts ==
    (last.op = "MultipartComplete" /\ last.calls # <<>>) =>
        /\ last.calls[1][1] = "CompleteMultipartUpload"
        /\ Ascending(HandedOver(last))
        /\ SameEntries(HandedOver(last), Submitted(last))

\* Parts submitted as 3, 1, 2 went to the store as 1, 2, 3.
C26_Witness ==
    /\ last.op = "MultipartComplete"
    /\ last.calls # <<>>
    /\ Submitted(last) = <<Part(3, "e3"), Part(1, "e1"), Part(2, "e2")>>
    /\ HandedOver(last) = <<Part(1, "e1"), Part(2, "e2"), Part(3, "e3")>>

\* C27: a presign-part request with a part_number below 1 or above 10000 is
\* answered 400 with no URL and no presign call; a part_number from 1 to
\* 10000 is never the reason for a rejection, and such a request by an
\* authorized principal with a lifetime within 7 days is presigned.
C27_PresignPartNumberRange ==
    (last.op = "MultipartPresignPart" /\ last.input # <<>>) =>
        LET n == last.input[3]
        IN  /\ (n < 1 \/ n > 10000) =>
                  (last.status = 400 /\ last.body = <<>> /\ last.calls = <<>>)
            /\ (n >= 1 /\ n <= 10000) =>
                  /\ last.msg # "part_number must be between 1 and 10000"
                  /\ (last.authz = "allow" /\ last.input[4] <= SevenDays) =>
                        /\ last.calls = <<<<"Presign", last.input[1],
                                            presignPartExpires(last.input[4])>>>>
                        /\ last.status = 200 => last.body[1] = "url"

\* Part number 10000 was presigned.
C27_Witness ==
    /\ last.op = "MultipartPresignPart"
    /\ last.input # <<>>
    /\ last.input[3] = MaxPartNumber
    /\ last.status = 200
    /\ last.body = <<"url", MaxPartNumber, "upload-1">>

\* C28 as stated: the lifetime of a presigned part URL is never above 900
\* seconds and is 900 when expires_seconds is absent or not positive; a
\* value above 7 days is rejected.
C28_LifetimeAtMostDefault ==
    (last.op = "MultipartPresignPart" /\ last.input # <<>>) =>
        /\ last.status = 200 =>
              /\ last.calls[1][3] <= 900
              /\ last.input[4] <= 0 => last.calls[1][3] = 900
        /\ last.input[4] > 604800 => last.status >= 400

\* C28: the lifetime of a presigned part URL is expires_seconds when that is
\* from 1 to 604800 (7 days) and 900 when it is absent or not positive, so
\* it is never above 7 days; a value above 7 days is rejected with no
\* presign call.
C28_LifetimeAsRequested ==
    (last.op = "MultipartPresignPart" /\ last.input # <<>>) =>
        /\ last.calls # <<>> =>
              /\ last.calls[1][3] = IF last.input[4] <= 0 THEN 900 ELSE last.input[4]
              /\ last.calls[1][3] >= 1
              /\ last.calls[1][3] <= 604800
        /\ last.input[4] > 604800 => (last.status >= 400 /\ last.calls = <<>>)

\* A part URL was presigned for the hour the request asked for.
C28_Witness ==
    /\ last.op = "MultipartPresignPart"
    /\ last.status = 200
    /\ last.input[4] = 3600
    /\ last.calls = <<<<"Presign", "a/x", 3600>>>>

\* C30: a request whose connection id the registry does not hold gets an
\* error response that is neither the 400 of a validation error nor the
\* response of a refused principal, and issues no object-store call.
C30_UnknownConnectionIsNotFound ==
    (last.op \in GatewayOps /\ last.msg = "Key not found") =>
        /\ last.calls = <<>>
        /\ last.status >= 400
        /\ last.status # 400

\* C29: a listing asked for a prefix returns exactly the objects of the
\* connection's bucket whose key starts with that prefix.
C29_ListReturnsPrefix ==
    (last.op = "ListObjects" /\ last.status = 200) =>
        last.body = mioListObjects(Store(objects[last.cfg.bucket_name], <<>>), last.input[1])

\* The upload id a complete or abort call handed to the store.
CalledUpload(served) == served.calls[1][3]

Ended(served) ==
    /\ served.op \in {"MultipartComplete", "MultipartAbort"}
    /\ served.status = 200

\* C21: an upload goes from initiated through the uploading of parts to
\* completed, or from either in-progress phase to aborted; completed and
\* aborted are final.  A complete or an abort succeeds only for an upload
\* in progress, so none succeeds after one has for the same upload_id.
C21_UploadLifecycle ==
    [][/\ \A id \in UploadIds :
            /\ uploads[id].state \in {"completed", "aborted"} => uploads'[id] = uploads[id]
            /\ uploads'[id].state # uploads[id].state =>
                  <<uploads[id].state, uploads'[id].state>> \in
                      {<<"none", "initiated">>, <<"initiated", "uploading">>,
                       <<"uploading", "completed">>,
                       <<"initiated", "aborted">>, <<"uploading", "aborted">>}
       /\ (last = Idle /\ Ended(last')) =>
            /\ InProgress(uploads, CalledUpload(last'))
            /\ uploads'[CalledUpload(last')].state =
                  IF last'.op = "MultipartComplete" THEN "completed" ELSE "aborted"]_vars

\* A complete was refused for an upload that an abort had ended.
C21_Witness ==
    /\ last.op = "MultipartComplete"
    /\ last.status = 400
    /\ last.calls # <<>>
    /\ CalledUpload(last) \in UploadIds
    /\ uploads[CalledUpload(last)].state = "aborted"
    /\ \E i \in 1..Len(client.sent) : client.sent[i][1] = "PUT" /\ client.sent[i][3] = 200

\* The coordinator ended on the failure of a step after initiate.
FailedAfterInitiate ==
    client.pc = "failed" /\ client.err \in {"too large", "presign", "put", "etag", "complete"}

\* One abort for the upload was sent, as the last call, right after the step
\* that failed.
CompensatedOnce ==
    LET sent == client.sent
        n == Len(sent)
        step == CASE client.err = "presign" -> "MultipartPresignPart"
                  [] client.err \in {"put", "etag"} -> "PUT"
                  [] client.err = "complete" -> "MultipartComplete"
                  [] OTHER -> "MultipartInitiate"
    IN  /\ n >= 2
        /\ sent[n][1] = "MultipartAbort"
        /\ sent[n][2] = client.upload_id
        /\ \A i \in 1..(n - 1) : sent[i][1] # "MultipartAbort"
        /\ sent[n - 1][1] = step
        /\ (client.err \in {"presign", "put", "complete"}) =>
              /\ sent[n - 1][3] # 200
              /\ Cardinality({i \in 1..n : sent[i][1] = step /\ sent[i][3] # 200}) = 1

C23_AbortAfterInitiate ==
    [][(/\ last = Idle
        /\ last'.op = "MultipartAbort"
        /\ last'.authz = "allow"
        /\ last'.calls # <<>>
        /\ last'.fault = <<>>
        /\ Live(uploads, last'.cfg.bucket_name, last'.calls[1][2], CalledUpload(last'))
        /\ uploads[CalledUpload(last')].state = "initiated")
          => /\ last'.status = 200
             /\ ~InProgress(uploads', CalledUpload(last'))
             /\ uploads'[CalledUpload(last')].parts = {}]_vars

\* The abort that followed the failed presign of the first part went through.
C23_Witness ==
    /\ last.op = "MultipartAbort"
    /\ last.status = 200
    /\ client.err = "presign"
    /\ client.partNumber = 1
    /\ \A i \in 1..Len(client.sent) : client.sent[i][1] # "PUT"
    /\ uploads[client.upload_id].state = "aborted"

\* C38: the parts list an accepted complete request hands to the store is
\* strictly increasing in part_number, so that no part number occurs twice.
C38_HandedOverStrictlyIncreasing ==
    (last.op = "MultipartComplete" /\ last.calls # <<>>) =>
        \A i \in 1..(Len(HandedOver(last)) - 1) :
            HandedOver(last)[i].part_number < HandedOver(last)[i + 1].part_number

\* The calls of the coordinator that carry a part: presign and PUT.
PartCalls == SelectSeq(client.sent, LAMBDA s : s[1] \in {"MultipartPresignPart", "PUT"})

\* C39: the coordinator calls complete only after it presigned and PUT every
\* part 1..partCount in ascending order, each PUT answered with an ETag it
\* recorded; the list it sends has partCount entries numbered 1..partCount,
\* and partCount is from 1 to 10000.
C39_CompleteAfterAllParts ==
    (last.op = "MultipartComplete" /\ last.user = Uploader) =>
        LET parts == client.completedParts
            n == client.partCount
            id == client.upload_id
        IN  /\ 1 <= n /\ n <= 10000
            /\ last.input # <<>> => Submitted(last) = parts
            /\ Len(parts) = n
            /\ \A i \in 1..n : parts[i] = Part(i, EtagOrder[i])
            /\ Len(PartCalls) = 2 * n
            /\ \A i \in 1..n :
                  /\ PartCalls[2 * i - 1] = <<"MultipartPresignPart", id, 200>>
                  /\ PartCalls[2 * i] = <<"PUT", id, 200>>

\* The coordinator's complete of a two-part upload was accepted.
C39_Witness ==
    /\ last.op = "MultipartComplete"
    /\ last.user = Uploader
    /\ last.status = 200
    /\ Len(Submitted(last)) = 2
    /\ client.partCount = 2
\* C35: a move with overwrite=false copies to a destination key only when the
\* stat of that key established that it holds nothing; when the stat fails
\* for another reason the move issues no copy and no delete for that object.
C35_StatFailureStopsTheMove ==
    (Admitted(last) /\ ~last.req.overwrite) =>
        \A i \in DOMAIN last.calls :
            (last.calls[i][1] = "StatObject" /\ last.fault = last.calls[i]) =>
                i = Len(last.calls)

\* The calls of a failed prefix move up to its last one met no failure.
NoFailureBefore(calls, fault) ==
    \A i \in 1..(Len(calls) - 1) :
        /\ calls[i][1] = "StatObject" =>
              calls[i + 1][1] = "CopyObject" /\ calls[i + 1][3] = calls[i][2]
        /\ calls[i][1] = "CopyObject" => calls[i + 1] = <<"RemoveObject", calls[i][2]>>
        /\ calls[i][1] = "RemoveObject" => calls[i] # fault

\* C33: a prefix move stops at its first per-object failure: the failing
\* call is the last store call of the request, and every object under
\* fromPrefix the move did not reach is at its source key with its content.
C33_StopsAtFirstFailure ==
    [][(/\ Admitted(last')
        /\ PrefixPair(last'.req)
        /\ last'.status # 200)
          => LET b == last'.cfg.bucket_name
                 calls == last'.calls
                 fromPrefix == normalizePrefix(last'.req.from_prefix)
                 reached == {calls[i][2] : i \in {j \in DOMAIN calls : calls[j][1] = "CopyObject"}}
             IN  /\ NoFailureBefore(calls, last'.fault)
                 /\ \A k \in Under(objects[b], fromPrefix) \ reached :
                        /\ k \in DOMAIN objects'[b]
                        /\ objects'[b][k] = objects[b][k]]_vars

\* A prefix move stopped on the failing delete of its first object and left
\* the second one alone.
C33_Witness ==
    /\ Admitted(last)
    /\ last.status = 400
    /\ last.fault = <<"RemoveObject", "a/x">>
    /\ last.calls = <<<<"ListObjects", "a/">>, <<"StatObject", "b/x">>,
                      <<"CopyObject", "a/x", "b/x">>, <<"RemoveObject", "a/x">>>>
    /\ {"a/x", "a/y", "b/x"} \subseteq DOMAIN objects[last.cfg.bucket_name]

\* C34: the refactored Move answers every request as the earlier inline Move
\* does on the same bucket and the same store failure: the same store calls
\* in the same order, the same status, the same response body fields, and
\* the same bucket afterwards.
C34_RefactoredMoveIsInlineMove ==
    [][Admitted(last') =>
        LET b == last'.cfg.bucket_name
            inline == MoveInline(Store(objects[b], last'.fault), last'.req)
        IN  /\ last'.calls = inline.err.calls
            /\ last'.status = inline.err.status
            /\ last'.body = inline.err.body
            /\ objects'[b] = inline.store.objects]_vars
(***************************************************************************)
(* The vocabulary of the properties of requests served side by side.       *)
(***************************************************************************)
\* Every request that arrived has been answered.
AllAnswered == \A s \in Slots : inflight[s].pc \in {"free", "done"}

\* The contents of the objects of the bucket the moves work on.
Kept == {objects[MoveConfig.bucket_name][k] : k \in DOMAIN objects[MoveConfig.bucket_name]}

\* C31: the destination check of a move with overwrite=false is right only
\* for the moment of the stat: the move goes on to the copy exactly when the
\* stat found no object at the destination, and nothing keeps the key empty
\* until the copy, so that a request that creates the key in between has its
\* object replaced by a move that then reports success (C31_Witness).
C31_CheckThenActWindow ==
    [][\A s \in Slots :
          (inflight[s].pc = "stat" /\ inflight'[s] # inflight[s]) =>
              LET m == inflight[s]
                  held == m.newKey \in DOMAIN objects[m.cfg.bucket_name]
              IN  /\ objects' = objects
                  /\ IF held THEN inflight'[s].pc = "done" /\ inflight'[s].status = 409
                     ELSE inflight'[s].pc = "copy"]_vars

\* A move with overwrite=false replaced the object another request had put
\* at its destination after the stat, and answered 200.
C31_Witness ==
    \E s \in Slots :
        /\ inflight[s].pc = "done"
        /\ inflight[s].status = 200
        /\ ~inflight[s].req.overwrite
        /\ inflight[s].calls = <<<<"StatObject", "b/a">>, <<"CopyObject", "a/a", "b/a">>,
                                 <<"RemoveObject", "a/a">>>>
        /\ inflight[s].replaced

\* C36: a prefix move whose to_prefix lies under its from_prefix ends in
\* success and copies no object that one of its own earlier copies wrote.
C36_NestedMoveMovesOnce ==
    \A s \in Slots :
        LET m == inflight[s]
            copies == {i \in DOMAIN m.calls : m.calls[i][1] = "CopyObject"}
        IN  (/\ m.pc = "done"
             /\ PrefixPair(m.req)
             /\ HasPrefix(normalizePrefix(m.req.to_prefix), normalizePrefix(m.req.from_prefix))
             /\ \A t \in Slots \ {s} : inflight[t].pc = "free")
                => /\ m.status = 200
                   /\ \A i, j \in copies : i < j => m.calls[j][2] # m.calls[i][3]

\* C37: once two moves on one bucket have both been answered, the content
\* every one of their copies read is the content of an object of the bucket.
C37_MovesKeepContent ==
    AllAnswered => \A s \in Slots : inflight[s].carried \subseteq Kept
\* C32: of two add_connection calls that write one registry key neither
\* fails because of the other and none leaves a merged record: each PutKV
\* stores the whole record of its own request under the key and leaves every
\* other key alone, so the key holds the record of the write that came last.
C32_LastWriterWins ==
    [][/\ \A s \in Slots :
             (inflight[s].pc = "put" /\ inflight'[s] # inflight[s]) =>
                 LET key == BucketIdPrefix \o inflight[s].cfg.bucket_name
                 IN  /\ inflight'[s].pc = "done"
                     /\ inflight'[s].status = 200
                     /\ key \in DOMAIN db'
                     /\ db'[key] = Marshal(inflight[s].cfg)
                     /\ Record(db', key) = inflight[s].cfg
                     /\ \A k \in (DOMAIN db \cup DOMAIN db') \ {key} :
                            k \in DOMAIN db /\ k \in DOMAIN db' /\ db'[k] = db[k]
       /\ db' # db => \E s \in Slots : inflight[s].pc = "put" /\ inflight'[s].pc = "done"]_vars

\* Two calls with different records for one key were both answered 200, and
\* the key holds the whole record of one of them.
C32_Witness ==
    /\ AllAnswered
    /\ inflight[1].op = "AddConnection" /\ inflight[2].op = "AddConnection"
    /\ inflight[1].status = 200 /\ inflight[2].status = 200
    /\ inflight[1].cfg.bucket_name = inflight[2].cfg.bucket_name
    /\ inflight[1].cfg # inflight[2].cfg
    /\ Record(db, BucketIdPrefix \o inflight[1].cfg.bucket_name) = inflight[1].cfg
\* C40: from a successful DisableUser(u, true) for an existing local user
\* until a successful DisableUser(u, false), in whatever spelling u was
\* given, ValidateUser for that user with the right password is refused with
\* the generic invalid-username-or-password error.
C40_DisabledUserCannotLogIn ==
    (/\ last.op = "ValidateUser"
     /\ normalizeUsername(last.input[1]) \in lockout
     /\ last.input[2] = "pw1")
        => /\ last.status = 401
           /\ last.msg = "invalid username or password"
====
